---- MODULE Spec2Model ----
(***************************************************************************)
(* Verification model of the Polymarket plugin core (rust/src):            *)
(*   - actions/orders.rs   : order amounts, EIP-712 preimages, signing     *)
(*   - actions/api_keys.rs : ClobAuth preimage                             *)
(*   - actions/trading.rs  : get_positions (trade fold, PnL, emission)     *)
(*   - client.rs           : ClobClient construction, get_trades paging    *)
(*   - service.rs          : PolymarketService                             *)
(*   - actions/account.rs  : handle_authentication                         *)
(*   - actions/realtime.rs : setup_websocket, handle_realtime_updates      *)
(*   - actions/markets.rs  : retrieve_all_markets                          *)
(*                                                                         *)
(* f64 values are modelled as IEEE-754 binary64 numbers (sign, 53-bit      *)
(* mantissa, exponent) with round-to-nearest-even, computed on arbitrary   *)
(* precision naturals kept as little-endian sequences of 15-bit limbs.     *)
(* Strings that the code parses or formats are sequences of one-character  *)
(* strings.                                                                *)
(***************************************************************************)
EXTENDS Integers, Sequences, FiniteSets, TLC

(***************************************************************************)
(* Arbitrary precision naturals: <<>> is 0, limb 1 is the least            *)
(* significant, the last limb is never 0.                                  *)
(***************************************************************************)
Base == 2^15

Pow2(n) == 2^n

RECURSIVE IntBitLen(_)
IntBitLen(n) == IF n = 0 THEN 0 ELSE 1 + IntBitLen(n \div 2)

LimbBits == IntBitLen(Base - 1)

RECURSIVE BNorm(_)
BNorm(a) ==
    IF a = <<>> THEN a
    ELSE IF a[Len(a)] = 0 THEN BNorm(SubSeq(a, 1, Len(a) - 1))
    ELSE a

RECURSIVE BFromInt(_)
BFromInt(n) == IF n = 0 THEN <<>> ELSE <<n % Base>> \o BFromInt(n \div Base)

RECURSIVE BToInt(_)
BToInt(a) == IF a = <<>> THEN 0 ELSE a[1] + Base * BToInt(Tail(a))

BRest(a) == IF a = <<>> THEN a ELSE Tail(a)

BLow(a) == IF a = <<>> THEN 0 ELSE a[1]

RECURSIVE BAddC(_, _, _)
BAddC(a, b, c) ==
    IF a = <<>> /\ b = <<>> THEN (IF c = 0 THEN <<>> ELSE <<c>>)
    ELSE LET s == BLow(a) + BLow(b) + c
         IN  <<s % Base>> \o BAddC(BRest(a), BRest(b), s \div Base)

BAdd(a, b) == BAddC(a, b, 0)

\* a - b - c for a >= b + c, limb by limb with borrow c.
RECURSIVE BSubC(_, _, _)
BSubC(a, b, c) ==
    IF a = <<>> THEN <<>>
    ELSE LET d == a[1] - BLow(b) - c
         IN  IF d < 0 THEN <<d + Base>> \o BSubC(Tail(a), BRest(b), 1)
             ELSE <<d>> \o BSubC(Tail(a), BRest(b), 0)

BSub(a, b) == BNorm(BSubC(a, b, 0))

\* Three-way comparison of the limbs from position i downwards (equal lengths).
RECURSIVE BCmpFrom(_, _, _)
BCmpFrom(a, b, i) ==
    IF i = 0 THEN 0
    ELSE IF a[i] < b[i] THEN -1
    ELSE IF a[i] > b[i] THEN 1
    ELSE BCmpFrom(a, b, i - 1)

BCmp(a, b) ==
    IF Len(a) < Len(b) THEN -1
    ELSE IF Len(a) > Len(b) THEN 1
    ELSE BCmpFrom(a, b, Len(a))

\* a * d + c for one limb d.
RECURSIVE BMulLimb(_, _, _)
BMulLimb(a, d, c) ==
    IF a = <<>> THEN (IF c = 0 THEN <<>> ELSE <<c>>)
    ELSE LET p == a[1] * d + c
         IN  <<p % Base>> \o BMulLimb(Tail(a), d, p \div Base)

\* a times the limbs of b from i downwards, plus acc * Base^i.
RECURSIVE BMulAcc(_, _, _, _)
BMulAcc(a, b, i, acc) ==
    IF i = 0 THEN acc
    ELSE IF acc = <<>> THEN BMulAcc(a, b, i - 1, BMulLimb(a, b[i], 0))
    ELSE BMulAcc(a, b, i - 1, BAdd(BMulLimb(a, b[i], 0), <<0>> \o acc))

BMul(a, b) ==
    IF a = <<>> \/ b = <<>> THEN <<>> ELSE BNorm(BMulAcc(a, b, Len(b), <<>>))

Zeros(n) == [i \in 1..n |-> 0]

\* a * 2^n.
BShl(a, n) ==
    IF a = <<>> THEN a
    ELSE Zeros(n \div LimbBits) \o BMulLimb(a, Pow2(n % LimbBits), 0)

\* Quotient and remainder of a by a small divisor d (d <= Base), from the top limb.
\* q holds the quotient limbs of the limbs above i, r their remainder.
RECURSIVE BDivLimbFrom(_, _, _, _, _)
BDivLimbFrom(a, d, i, q, r) ==
    IF i = 0 \/ r < 0 THEN <<BNorm(q), r>>
    ELSE BDivLimbFrom(a, d, i - 1, <<(r * Base + a[i]) \div d>> \o q,
                      (r * Base + a[i]) % d)

BDivLimb(a, d) == BDivLimbFrom(a, d, Len(a), <<>>, 0)

\* floor(a / 2^n).
BShr(a, n) ==
    LET k == n \div LimbBits
    IN  IF k >= Len(a) THEN <<>>
        ELSE BDivLimb(SubSeq(a, k + 1, Len(a)), Pow2(n % LimbBits))[1]

\* Bit i (0 = least significant) of a.
BBit(a, i) ==
    LET k == i \div LimbBits
    IN  IF k >= Len(a) THEN 0 ELSE (a[k + 1] \div Pow2(i % LimbBits)) % 2

\* Whether a has a 1 bit below position n.
BLowBits(a, n) ==
    LET k == n \div LimbBits
    IN  \/ \E j \in 1..k : j <= Len(a) /\ a[j] # 0
        \/ k < Len(a) /\ a[k + 1] % Pow2(n % LimbBits) # 0

BBitLen(a) ==
    IF a = <<>> THEN 0 ELSE LimbBits * (Len(a) - 1) + IntBitLen(a[Len(a)])

BLimb(a, i) == IF i <= Len(a) THEN a[i] ELSE 0

\* The largest d <= hi with d * b <= r.
RECURSIVE BQuotLimb(_, _, _)
BQuotLimb(r, b, hi) ==
    IF hi = 0 \/ BCmp(BMulLimb(b, hi, 0), r) <= 0 THEN hi
    ELSE BQuotLimb(r, b, hi - 1)

\* The estimate of the quotient limb of r by b from the leading limbs, for
\* r < b * Base and a leading limb of b of at least Base / 2: it is the
\* quotient limb or exceeds it by at most 2.
BQuotEstimate(r, b) ==
    IF Len(r) < Len(b) THEN 0
    ELSE LET est == (BLimb(r, Len(b) + 1) * Base + r[Len(b)]) \div b[Len(b)]
         IN  IF est > Base - 1 THEN Base - 1 ELSE est

\* Long division of a by b from limb i downwards: q holds the quotient limbs of
\* the limbs above i, rem (< b * Base) the running remainder with limb i
\* brought down, d its quotient limb.  <<quotient, remainder>>.
RECURSIVE BDivFrom(_, _, _, _, _)
BDivFrom(a, b, i, q, rem) ==
    LET Digit(d) ==
            IF d = 0
            THEN (IF i = 1 THEN <<BNorm(<<0>> \o q), rem>>
                  ELSE BDivFrom(a, b, i - 1, <<0>> \o q, BNorm(<<a[i - 1]>> \o rem)))
            ELSE (IF i = 1 THEN <<BNorm(<<d>> \o q), BSub(rem, BMulLimb(b, d, 0))>>
                  ELSE BDivFrom(a, b, i - 1, <<d>> \o q,
                                BNorm(<<a[i - 1]>> \o BSub(rem, BMulLimb(b, d, 0)))))
    IN  Digit(BQuotLimb(rem, b, BQuotEstimate(rem, b)))

\* Quotient and remainder of a by b # 0.  Both are scaled by 2^sh, which brings
\* the leading limb of b to at least Base / 2; the division starts with the
\* leading Len(b) limbs of a as the remainder.
BDivMod(a, b) ==
    LET Scaled(sa, sb, sh) ==
            LET Unscale(qr) == <<qr[1], BShr(qr[2], sh)>>
            IN  IF Len(sa) < Len(sb) THEN <<<<>>, a>>
                ELSE Unscale(BDivFrom(sa, sb, Len(sa) - Len(sb) + 1, <<>>,
                                      BNorm(SubSeq(sa, Len(sa) - Len(sb) + 1, Len(sa)))))
        Shifted(sh) == Scaled(BShl(a, sh), BShl(b, sh), sh)
    IN  Shifted(LimbBits - IntBitLen(b[Len(b)]))

(***************************************************************************)
(* IEEE-754 binary64.  A finite f64 is [s, m, e]: sign s (1 = negative),   *)
(* mantissa m with 2^52 <= m < 2^53 (or 0), value (-1)^s * m * 2^e.        *)
(* Infinities, NaN and subnormals are outside the magnitudes the model's   *)
(* inputs can produce.                                                     *)
(***************************************************************************)
MantBits == 52 + 1

FZero(s) == [s |-> s, m |-> <<>>, e |-> 0]

FIsZero(x) == x.m = <<>>

\* The f64 nearest to (-1)^s * (n + f) * 2^e, ties to even, where 0 <= f < 1 and
\* sticky says f > 0 (n then has more than MantBits bits).
FRound(s, n, e, sticky) ==
    LET Pack(r, er) ==
            IF BBitLen(r) > MantBits
            THEN [s |-> s, m |-> BShr(r, 1), e |-> er + 1]
            ELSE [s |-> s, m |-> r, e |-> er]
        \* q is the truncated mantissa, half the first bit cut off, low whether
        \* any later bit is set.
        Tie(q, eq, half, low) ==
            Pack(IF half /\ (low \/ BBit(q, 0) = 1) THEN BAddC(q, <<>>, 1) ELSE q, eq)
        Shift(sh) ==
            Tie(BShr(n, sh), e + sh, BBit(n, sh - 1) = 1,
                sticky \/ BLowBits(n, sh - 1))
        OfLen(len) ==
            IF len <= MantBits
            THEN [s |-> s, m |-> BShl(n, MantBits - len), e |-> e - (MantBits - len)]
            ELSE Shift(len - MantBits)
    IN  IF n = <<>> THEN FZero(s) ELSE OfLen(BBitLen(n))

FNeg(x) == [x EXCEPT !.s = 1 - x.s]

FAbs(x) == [x EXCEPT !.s = 0]

FMul(x, y) ==
    IF FIsZero(x) \/ FIsZero(y) THEN FZero((x.s + y.s) % 2)
    ELSE FRound((x.s + y.s) % 2, BMul(x.m, y.m), x.e + y.e, FALSE)

FAdd(x, y) ==
    LET \* Opposite signs: nx and ny are the magnitudes on the common exponent
        \* e, c their comparison.
        Differ(e, nx, ny, c) ==
            IF c = 0 THEN FZero(0)
            ELSE IF c > 0 THEN FRound(x.s, BSub(nx, ny), e, FALSE)
            ELSE FRound(y.s, BSub(ny, nx), e, FALSE)
        Aligned(e, nx, ny) ==
            IF x.s = y.s THEN FRound(x.s, BAdd(nx, ny), e, FALSE)
            ELSE Differ(e, nx, ny, BCmp(nx, ny))
        OnExp(e) == Aligned(e, BShl(x.m, x.e - e), BShl(y.m, y.e - e))
    IN  IF FIsZero(x) /\ FIsZero(y) THEN FZero(IF x.s = 1 /\ y.s = 1 THEN 1 ELSE 0)
        ELSE IF FIsZero(x) THEN y
        ELSE IF FIsZero(y) THEN x
        ELSE OnExp(IF x.e < y.e THEN x.e ELSE y.e)

FSub(x, y) == FAdd(x, FNeg(y))

\* x / y for y # 0.
FDiv(x, y) ==
    LET Round(qr) ==
            FRound((x.s + y.s) % 2, qr[1], x.e - y.e - (MantBits + 3), qr[2] # <<>>)
    IN  IF FIsZero(x) THEN FZero((x.s + y.s) % 2)
        ELSE Round(BDivMod(BShl(x.m, MantBits + 3), y.m))

\* Magnitude comparison of two non-zero values.
FCmpMag(x, y) ==
    IF x.e < y.e THEN -1 ELSE IF x.e > y.e THEN 1 ELSE BCmp(x.m, y.m)

\* x < y.
FLt(x, y) ==
    IF FIsZero(x) /\ FIsZero(y) THEN FALSE
    ELSE IF FIsZero(x) THEN y.s = 0
    ELSE IF FIsZero(y) THEN x.s = 1
    ELSE IF x.s # y.s THEN x.s = 1
    ELSE IF x.s = 0 THEN FCmpMag(x, y) < 0
    ELSE FCmpMag(x, y) > 0

FGt(x, y) == FLt(y, x)

FLe(x, y) == ~FLt(y, x)

\* Quotient of n by 10^k, with whether any digit was shifted out; four
\* decimal digits at a time.
RECURSIVE BDivPow10(_, _, _)
BDivPow10(n, k, sticky) ==
    LET Next10(qr, step) == BDivPow10(qr[1], k - step, sticky \/ qr[2] # 0)
        By(step) == Next10(BDivLimb(n, 10^step), step)
    IN  IF k = 0 \/ n = <<>> THEN <<n, sticky>> ELSE By(IF k >= 4 THEN 4 ELSE k)

\* The f64 nearest to (-1)^s * n / 10^k.
FFromDec(s, n, k) ==
    LET Round(qs) == FRound(s, qs[1], -(64 + 4 * k), qs[2])
    IN  Round(BDivPow10(BShl(n, 64 + 4 * k), k, FALSE))

FFromInt(n) == FFromDec(0, BFromInt(n), 0)

\* n * 10^k, four decimal digits at a time.
RECURSIVE BMulPow10(_, _)
BMulPow10(n, k) ==
    IF k = 0 THEN n
    ELSE IF k >= 4 THEN BMulPow10(BMulLimb(n, 10^4, 0), k - 4)
    ELSE BMulLimb(n, 10^k, 0)

\* |x| * 10^k rounded to an integer, ties to even.
FScaledRound(x, k) ==
    LET Tie(q, half, low) ==
            BToInt(q) + (IF half /\ (low \/ BBit(q, 0) = 1) THEN 1 ELSE 0)
        Cut(n, sh) == Tie(BShr(n, sh), BBit(n, sh - 1) = 1, BLowBits(n, sh - 1))
    IN  IF x.e >= 0 THEN BToInt(BShl(BMulPow10(x.m, k), x.e))
        ELSE Cut(BMulPow10(x.m, k), -x.e)

\* floor(|x|).
FFloorMag(x) == IF x.e >= 0 THEN BShl(x.m, x.e) ELSE BShr(x.m, -x.e)

(***************************************************************************)
(* Strings are sequences of one-character strings.                         *)
(***************************************************************************)
Digits == <<"0", "1", "2", "3", "4", "5", "6", "7", "8", "9">>

IsDigit(c) == \E d \in 1..10 : Digits[d] = c

DigitVal(c) == (CHOOSE d \in 1..10 : Digits[d] = c) - 1

\* Decimal digits of a natural number (to_string of an unsigned integer).
RECURSIVE IntToStr(_)
IntToStr(n) ==
    IF n < 10 THEN <<Digits[n + 1]>>
    ELSE Append(IntToStr(n \div 10), Digits[(n % 10) + 1])

\* Value of a string of decimal digits.
RECURSIVE DigitsToInt(_)
DigitsToInt(str) ==
    LET Halves(low) ==
            DigitsToInt(SubSeq(str, 1, Len(str) - low)) * 10^low
                + DigitsToInt(SubSeq(str, Len(str) - low + 1, Len(str)))
    IN  IF str = <<>> THEN 0
        ELSE IF Len(str) = 1 THEN DigitVal(str[1])
        ELSE Halves(Len(str) \div 2)

\* Value of a string of decimal digits of any length, four digits at a time.
RECURSIVE BFromDigits(_)
BFromDigits(str) ==
    IF Len(str) <= 4 THEN BFromInt(DigitsToInt(str))
    ELSE BNorm(BMulLimb(BFromDigits(SubSeq(str, 1, Len(str) - 4)), 10^4,
                        DigitsToInt(SubSeq(str, Len(str) - 3, Len(str)))))

\* str::parse::<f64> on the plain decimal literals [+-]digits[.digits]
\* (at least one digit, at most one point); every other string is an Err.
\* Literals with an exponent, "inf" and "nan" are not among the model's inputs.
ParseSign(str) == IF str # <<>> /\ str[1] = "-" THEN 1 ELSE 0

ParseBody(str) == IF str # <<>> /\ str[1] \in {"-", "+"} THEN Tail(str) ELSE str

ParseF64(str) ==
    LET \* body is the literal without its sign, dots the positions of its
        \* points, digs its digits.
        Decimal(body, dots, digs) ==
            IF /\ \A i \in 1..Len(body) : IsDigit(body[i]) \/ body[i] = "."
               /\ Cardinality(dots) <= 1
               /\ digs # <<>>
            THEN [ok |-> TRUE,
                  v  |-> FFromDec(ParseSign(str), BFromDigits(digs),
                                  IF dots = {} THEN 0
                                  ELSE Len(body) - (CHOOSE i \in dots : TRUE))]
            ELSE [ok |-> FALSE, v |-> FZero(0)]
        Split(body) ==
            Decimal(body, {i \in 1..Len(body) : body[i] = "."},
                    SelectSeq(body, IsDigit))
    IN  Split(ParseBody(str))

\* Variant: .unwrap_or(1.0)
UnwrapOr1(r) == IF r.ok THEN r.v ELSE FFromInt(1)

\* Result::unwrap_or(0.0)
UnwrapOr0(r) == IF r.ok THEN r.v ELSE FZero(0)

\* .parse::<f64>().unwrap_or(0.0)
ParseF64Or0(str) == UnwrapOr0(ParseF64(str))

\* n characters "0" (none for n <= 0).
ZeroPad(n) == IF n > 0 THEN [i \in 1..n |-> "0"] ELSE <<>>

\* format!("{:.prec$}", x): sign, integer part, point, prec fraction digits.
FormatFixed(x, prec) ==
    LET Join(int, frac) == int \o (<<".">> \o (ZeroPad(prec - Len(frac)) \o frac))
        OfUnits(units) ==
            Join(IntToStr(units \div 10^prec), IntToStr(units % 10^prec))
    IN  (IF x.s = 1 THEN <<"-">> ELSE <<>>) \o OfUnits(FScaledRound(x, prec))

\* `x as u64` for an f64 x: truncation toward zero; negatives saturate to 0
\* and values of 2^64 and more to u64::MAX.
F64AsU64(x) ==
    LET Saturated(n) ==
            IF BBitLen(n) > 64 THEN BSub(BShl(BFromInt(1), 64), BFromInt(1)) ELSE n
    IN  IF x.s = 1 \/ FIsZero(x) THEN <<>> ELSE Saturated(FFloorMag(x))

(***************************************************************************)
(* u64 / U256 values are arbitrary precision naturals.                     *)
(***************************************************************************)
\* The low `bits` bits of a (an `as u64` cast, a wrapping shift).
BTrunc(a, bits) ==
    LET k == bits \div LimbBits
    IN  IF k >= Len(a) THEN a
        ELSE BNorm(SubSeq(a, 1, k) \o <<a[k + 1] % Pow2(bits % LimbBits)>>)

\* x ^ y for two limbs, bit by bit.
XorInt(x, y) ==
    LET Bit(i) == (((x \div 2^i) + (y \div 2^i)) % 2) * 2^i
    IN  Bit(0) + Bit(1) + Bit(2) + Bit(3) + Bit(4) + Bit(5) + Bit(6) + Bit(7)
            + Bit(8) + Bit(9) + Bit(10) + Bit(11) + Bit(12) + Bit(13) + Bit(14)

BXorLimbs(a, b) ==
    [i \in 1..(IF Len(a) > Len(b) THEN Len(a) ELSE Len(b)) |->
        XorInt(BLimb(a, i), BLimb(b, i))]

BXor(a, b) == BNorm(BXorLimbs(a, b))

\* Variant: the digits of n in base 16.
RECURSIVE U256ToHexString(_)
U256ToHexString(n) ==
    LET HexDigits == <<"0", "1", "2", "3", "4", "5", "6", "7", "8", "9",
                       "a", "b", "c", "d", "e", "f">>
        Group(qr) ==
            IF qr[1] = <<>> THEN <<HexDigits[qr[2] + 1]>>
            ELSE Append(U256ToHexString(qr[1]), HexDigits[qr[2] + 1])
    IN  Group(BDivLimb(n, 16))

\* U256::to_string: decimal digits.
\* The digits of n followed by `low`, four digits per division.
RECURSIVE U256Digits(_, _)
U256Digits(n, low) ==
    LET Group(qr) ==
            IF qr[1] = <<>> THEN IntToStr(qr[2]) \o low
            ELSE U256Digits(qr[1],
                            ZeroPad(4 - Len(IntToStr(qr[2]))) \o IntToStr(qr[2]) \o low)
    IN  Group(BDivLimb(n, 10000))

U256ToString(n) == U256Digits(n, <<>>)

(***************************************************************************)
(* rust_decimal::Decimal: [neg, mant, scale] is (-1)^neg * mant / 10^scale *)
(* with a mantissa of up to 96 bits.                                       *)
(***************************************************************************)
Dec(neg, mant, scale) == [neg |-> neg, mant |-> BFromInt(mant), scale |-> scale]

\* Decimal::to_string: all `scale` fraction digits are printed.
DecimalToString(d) ==
    LET Point(digs) ==
            (IF d.neg /\ d.mant # <<>> THEN <<"-">> ELSE <<>>)
                \o SubSeq(digs, 1, Len(digs) - d.scale)
                \o (IF d.scale = 0 THEN <<>>
                    ELSE <<".">> \o SubSeq(digs, Len(digs) - d.scale + 1, Len(digs)))
        Pad(raw) == Point(ZeroPad(d.scale + 1 - Len(raw)) \o raw)
    IN  Pad(U256Digits(d.mant, <<>>))

\* price.to_string().parse::<f64>().unwrap_or(0.0)
DecimalToF64(d) == ParseF64Or0(DecimalToString(d))

\* str::parse::<U256> on decimal literals; a string with any other character
\* is an Err (prefixed hex/octal/binary literals are not among the inputs).
ParseU256(str) ==
    IF str # <<>> /\ \A i \in 1..Len(str) : IsDigit(str[i])
    THEN [ok |-> TRUE, v |-> BFromDigits(str)]
    ELSE [ok |-> FALSE, v |-> <<>>]

(***************************************************************************)
(* Byte strings (Vec<u8>).  An item is <<"b", v>>, one byte of value v,    *)
(* <<"h", H>>, the 32 bytes of the hash value H, or <<"s", k, d>>, the 65  *)
(* bytes of the signature of d under k.  keccak256 is modelled as          *)
(* a collision-free function: the hash value of a byte string is the pair  *)
(* <<"keccak256", bytes>>, that of an ASCII literal <<"keccak256-ascii",   *)
(* literal>>.                                                              *)
(***************************************************************************)
Byte(v) == <<"b", v>>

HashBytes(h) == <<<<"h", h>>>>

ZeroBytes(n) == [i \in 1..n |-> Byte(0)]

RawBytes(vals) == [i \in 1..Len(vals) |-> Byte(vals[i])]

Keccak256(data) == <<"keccak256", data>>

Keccak256Ascii(literal) == <<"keccak256-ascii", literal>>

ItemWidth(item) == IF item[1] = "b" THEN 1 ELSE IF item[1] = "h" THEN 32 ELSE 65

\* Vec::len, by halves.
RECURSIVE ByteLen(_)
ByteLen(data) ==
    IF data = <<>> THEN 0
    ELSE IF Len(data) = 1 THEN ItemWidth(data[1])
    ELSE ByteLen(SubSeq(data, 1, Len(data) \div 2))
             + ByteLen(SubSeq(data, Len(data) \div 2 + 1, Len(data)))

\* The byte string with every hash item spelled out as its 32 bytes
\* <<"hb", H, 1>> .. <<"hb", H, 32>>.
RECURSIVE ExpandBytes(_)
ExpandBytes(data) ==
    IF data = <<>> THEN <<>>
    ELSE IF Len(data) = 1
    THEN (IF data[1][1] = "b" THEN data
          ELSE [i \in 1..32 |-> <<"hb", data[1][2], i>>])
    ELSE ExpandBytes(SubSeq(data, 1, Len(data) \div 2))
             \o ExpandBytes(SubSeq(data, Len(data) \div 2 + 1, Len(data)))

\* Byte j (0 = least significant) of n.
BByte(n, j) ==
    LET k == (8 * j) \div LimbBits
        o == (8 * j) % LimbBits
    IN  ((BLimb(n, k + 1) \div 2^o) + BLimb(n, k + 2) * 2^(LimbBits - o)) % 256

\* Variant: U256::to_le_bytes::<32>()
ToLeBytes32(n) == [i \in 1..32 |-> Byte(BByte(n, i - 1))]

\* U256::to_be_bytes::<32>()
ToBeBytes32(n) == [i \in 1..32 |-> Byte(BByte(n, 32 - i))]

(***************************************************************************)
(* constants.rs and the EIP-712 constants of actions/orders.rs             *)
(***************************************************************************)
POLYGON_CHAIN_ID == 137

SIGNATURE_TYPE_EOA == 0

DOMAIN_NAME == "Polymarket CTF Exchange"

DOMAIN_VERSION == "1"

\* 0x4bFb41d5B3570DeFd03C39a9A4D8dE6Bd8B8982E
CTF_EXCHANGE_ADDRESS ==
    <<75, 251, 65, 213, 179, 87, 13, 239, 208, 60,
      57, 169, 164, 216, 222, 107, 216, 184, 152, 46>>

\* 0xC5d563A36AE78145C45a50134d48A1215220f80a
NEG_RISK_CTF_EXCHANGE_ADDRESS ==
    <<197, 213, 99, 163, 106, 231, 129, 69, 196, 90,
      80, 19, 77, 72, 161, 33, 82, 32, 248, 10>>

\* Address::ZERO
AddressZero == [i \in 1..20 |-> 0]

usdc_decimals == 1000000

ctf_decimals == 1000000

ThirtyDays == 30 * 24 * 60 * 60

order_type_hash ==
    Keccak256Ascii("Order(uint256 salt,address maker,address signer,address taker,uint256 tokenId,uint256 makerAmount,uint256 takerAmount,uint256 expiration,uint256 nonce,uint256 feeRateBps,uint8 side,uint8 signatureType)")

domain_type_hash ==
    Keccak256Ascii("EIP712Domain(string name,string version,uint256 chainId,address verifyingContract)")

(***************************************************************************)
(* Private keys.  PrivateKeySigner parsing and address derivation are      *)
(* library code: a key is valid or not, and a valid key has an address.    *)
(***************************************************************************)
PrivateKeys == {"key-a", "key-b", "not-a-key"}

ValidKey(key) == key \in {"key-a", "key-b"}

\* PrivateKeySigner::address
SignerAddress(key) ==
    IF key = "key-a" THEN [i \in 1..20 |-> 16 + i] ELSE [i \in 1..20 |-> 200 - i]

\* Signature::as_bytes of the signature of `digest` under `key` (Signer::sign_hash,
\* when it succeeds): one item, the 65 bytes r || s || v.
Signature(key, digest) == <<<<"s", key, digest>>>>

\* "0x" followed by the hex digits of the bytes (an injective rendering).
HexString(bytes) == <<"0x", bytes>>

(***************************************************************************)
(* OrderBuilder (actions/orders.rs)                                        *)
(***************************************************************************)
\* Variant: the standard exchange whatever the flag.
exchange_address_standard(neg_risk) == CTF_EXCHANGE_ADDRESS

exchange_address(neg_risk) ==
    IF neg_risk THEN NEG_RISK_CTF_EXCHANGE_ADDRESS ELSE CTF_EXCHANGE_ADDRESS

\* The byte string hashed by OrderBuilder::domain_separator.
domain_separator_data(neg_risk) ==
    HashBytes(domain_type_hash)
        \o HashBytes(Keccak256Ascii(DOMAIN_NAME))
        \o HashBytes(Keccak256Ascii(DOMAIN_VERSION))
        \o ToBeBytes32(BFromInt(POLYGON_CHAIN_ID))
        \o RawBytes(exchange_address(neg_risk))

domain_separator(neg_risk) == Keccak256(domain_separator_data(neg_risk))

\* Variant: the maker's word is written again where the signer's belongs.
struct_hash_data_maker_twice(order) ==
    (HashBytes(order_type_hash)
        \o ToBeBytes32(order.salt)
        \o (ZeroBytes(12) \o RawBytes(order.maker))
        \o (ZeroBytes(12) \o RawBytes(order.maker))
        \o (ZeroBytes(12) \o RawBytes(order.taker)))
    \o (ToBeBytes32(order.token_id)
        \o ToBeBytes32(order.maker_amount)
        \o ToBeBytes32(order.taker_amount)
        \o ToBeBytes32(order.expiration)
        \o ToBeBytes32(order.nonce))
    \o (ToBeBytes32(order.fee_rate_bps)
        \o (ZeroBytes(31) \o <<Byte(order.side)>>)
        \o (ZeroBytes(31) \o <<Byte(order.signature_type)>>))

\* The byte string hashed by OrderBuilder::struct_hash.
struct_hash_data(order) ==
    (HashBytes(order_type_hash)
        \o ToBeBytes32(order.salt)
        \o (ZeroBytes(12) \o RawBytes(order.maker))
        \o (ZeroBytes(12) \o RawBytes(order.signer))
        \o (ZeroBytes(12) \o RawBytes(order.taker)))
    \o (ToBeBytes32(order.token_id)
        \o ToBeBytes32(order.maker_amount)
        \o ToBeBytes32(order.taker_amount)
        \o ToBeBytes32(order.expiration)
        \o ToBeBytes32(order.nonce))
    \o (ToBeBytes32(order.fee_rate_bps)
        \o (ZeroBytes(31) \o <<Byte(order.side)>>)
        \o (ZeroBytes(31) \o <<Byte(order.signature_type)>>))

struct_hash(order) == Keccak256(struct_hash_data(order))

\* Variant: the hash of domain separator and struct hash without the 0x19 0x01
\* prefix.
eip712_hash_unprefixed(neg_risk, order) ==
    Keccak256(HashBytes(domain_separator(neg_risk)) \o HashBytes(struct_hash(order)))

\* The byte string hashed by OrderBuilder::eip712_hash.
eip712_hash_data(neg_risk, order) ==
    <<Byte(25), Byte(1)>>
        \o HashBytes(domain_separator(neg_risk))
        \o HashBytes(struct_hash(order))

eip712_hash(neg_risk, order) == Keccak256(eip712_hash_data(neg_risk, order))

\* Duration::as_nanos of a clock reading [secs, nanos].
AsNanos(now) ==
    BAdd(BMul(BFromInt(now.secs), BFromInt(1000000000)), BFromInt(now.nanos))

\* duration.as_nanos() as u64 ^ (duration.as_secs() << 32)
rand_salt(now) ==
    BXor(BTrunc(AsNanos(now), 64), BTrunc(BShl(BFromInt(now.secs), 32), 64))

\* (price * size * usdc_decimals as f64) as u64
usdc_amount(params) ==
    F64AsU64(FMul(FMul(DecimalToF64(params.price), DecimalToF64(params.size)),
                  FFromInt(usdc_decimals)))

\* (size * ctf_decimals as f64) as u64
ctf_amount(params) ==
    F64AsU64(FMul(DecimalToF64(params.size), FFromInt(ctf_decimals)))

\* <<maker_amount, taker_amount>> of the match on params.side.
order_amounts(params) ==
    IF params.side = "Buy"
    THEN <<usdc_amount(params), ctf_amount(params)>>
    ELSE <<ctf_amount(params), usdc_amount(params)>>

\* Variant: the two codes exchanged.
side_code_exchanged(side) == IF side = "Buy" THEN 1 ELSE 0

\* side: 0 = BUY, 1 = SELL
side_code(side) == IF side = "Buy" THEN 0 ELSE 1

\* An Option is <<>> (None) or <<v>> (Some(v)).
None == <<>>

Some(v) == <<v>>

\* The OrderData built by create_and_sign_order from a parsed token id.
\* `now` is the clock reading of the salt and of the expiration, `now_nonce` the
\* later reading of the nonce.
BuildOrderData(key, params, token_id, now, now_nonce) ==
  LET WithAmounts(amounts) ==
    [salt           |-> rand_salt(now),
     maker          |-> SignerAddress(key),
     signer         |-> SignerAddress(key),
     taker          |-> AddressZero,
     token_id       |-> token_id,
     maker_amount   |-> amounts[1],
     taker_amount   |-> amounts[2],
     expiration     |-> IF params.expiration = None
                        THEN BFromInt(now.secs + ThirtyDays)
                        ELSE BFromInt(params.expiration[1]),
     nonce          |-> IF params.nonce = None
                        THEN rand_salt(now_nonce)
                        ELSE BFromInt(params.nonce[1]),
     fee_rate_bps   |-> BFromInt(params.fee_rate_bps),
     side           |-> side_code(params.side),
     signature_type |-> SIGNATURE_TYPE_EOA]
  IN  WithAmounts(order_amounts(params))

\* The SignedOrder returned for `order` and its signature.
MakeSignedOrder(order, signature) ==
    [salt           |-> U256ToString(order.salt),
     maker          |-> HexString(order.maker),
     signer         |-> HexString(order.signer),
     taker          |-> HexString(AddressZero),
     token_id       |-> U256ToString(order.token_id),
     maker_amount   |-> U256ToString(order.maker_amount),
     taker_amount   |-> U256ToString(order.taker_amount),
     expiration     |-> U256ToString(order.expiration),
     nonce          |-> U256ToString(order.nonce),
     fee_rate_bps   |-> U256ToString(order.fee_rate_bps),
     side           |-> IntToStr(order.side),
     signature_type |-> SIGNATURE_TYPE_EOA,
     signature      |-> HexString(signature)]

(***************************************************************************)
(* ApiKeyCreator (actions/api_keys.rs)                                     *)
(***************************************************************************)
clob_auth_type_hash ==
    Keccak256Ascii("ClobAuth(address address,uint256 timestamp,uint256 nonce)")

\* The byte string hashed by ApiKeyCreator::struct_hash.
clob_struct_hash_data(address, timestamp, nonce) ==
    HashBytes(clob_auth_type_hash)
        \o ZeroBytes(12) \o RawBytes(address)
        \o ToBeBytes32(timestamp)
        \o ToBeBytes32(nonce)

clob_struct_hash(address, timestamp, nonce) ==
    Keccak256(clob_struct_hash_data(address, timestamp, nonce))

\* duration.as_nanos() as u64 ^ (duration.as_secs() << 32) ^ (process::id() as u64)
random_u64(now, process_id) == BXor(rand_salt(now), BFromInt(process_id))

CLOB_DOMAIN_NAME == "ClobAuthDomain"

CLOB_DOMAIN_VERSION == "1"

\* The byte string hashed by ApiKeyCreator::domain_separator.
clob_domain_separator_data ==
    HashBytes(domain_type_hash)
        \o HashBytes(Keccak256Ascii(CLOB_DOMAIN_NAME))
        \o HashBytes(Keccak256Ascii(CLOB_DOMAIN_VERSION))
        \o ToBeBytes32(BFromInt(POLYGON_CHAIN_ID))
        \o RawBytes(AddressZero)

clob_domain_separator == Keccak256(clob_domain_separator_data)

\* The byte string hashed by ApiKeyCreator::eip712_hash.
clob_eip712_hash_data(address, timestamp, nonce) ==
    <<Byte(25), Byte(1)>>
        \o HashBytes(clob_domain_separator)
        \o HashBytes(clob_struct_hash(address, timestamp, nonce))

clob_eip712_hash(address, timestamp, nonce) ==
    Keccak256(clob_eip712_hash_data(address, timestamp, nonce))

\* The ClobAuth message of create_api_key: timestamp in seconds, and
\* nonce = timestamp ^ random_u64().
ClobAuthOf(key, now, now_nonce, process_id) ==
    [address   |-> SignerAddress(key),
     timestamp |-> BFromInt(now.secs),
     nonce     |-> BXor(BFromInt(now.secs), random_u64(now_nonce, process_id))]

\* Variant: the request carries a timestamp one second later than the signed one.
CreateApiKeyRequestLaterTimestamp(auth, signature) ==
    [address   |-> HexString(auth.address),
     timestamp |-> U256ToString(BAdd(auth.timestamp, BFromInt(1))),
     nonce     |-> U256ToString(auth.nonce),
     signature |-> HexString(signature)]

\* CreateApiKeyRequest
CreateApiKeyRequest(auth, signature) ==
    [address   |-> HexString(auth.address),
     timestamp |-> U256ToString(auth.timestamp),
     nonce     |-> U256ToString(auth.nonce),
     signature |-> HexString(signature)]

(***************************************************************************)
(* get_positions (actions/trading.rs): the fold of the trades into         *)
(* PositionAccumulators and the conversion of an accumulator to a Position *)
(***************************************************************************)
\* position_map.entry(token_id).or_insert_with(..)
NewAccumulator(trade) ==
    [market         |-> trade.market_id,
     asset_id       |-> trade.token_id,
     total_bought   |-> FZero(0),
     total_sold     |-> FZero(0),
     total_cost     |-> FZero(0),
     total_proceeds |-> FZero(0)]

EntryOf(map, trade) ==
    IF trade.token_id \in DOMAIN map THEN map[trade.token_id]
    ELSE NewAccumulator(trade)

\* match trade.side { Buy => .., Sell => .. }
AddTrade(entry, side, price, size) ==
    IF side = "Buy"
    THEN [entry EXCEPT !.total_bought = FAdd(@, size),
                       !.total_cost = FAdd(@, FMul(price, size))]
    ELSE [entry EXCEPT !.total_sold = FAdd(@, size),
                       !.total_proceeds = FAdd(@, FMul(price, size))]

InsertEntry(map, key, entry) ==
    [t \in DOMAIN map \cup {key} |-> IF t = key THEN entry ELSE map[t]]

\* One iteration of `for trade in &trades.data`.
FoldTrade(map, trade) ==
    InsertEntry(map, trade.token_id,
                AddTrade(EntryOf(map, trade), trade.side,
                         ParseF64Or0(trade.price), ParseF64Or0(trade.size)))

\* The map after the whole loop, started from `map`.
RECURSIVE FoldAll(_, _)
FoldAll(map, list) ==
    IF list = <<>> THEN map ELSE FoldAll(FoldTrade(map, Head(list)), Tail(list))

\* The literal 0.0001
Epsilon == FFromDec(0, BFromInt(1), 4)

net_size(acc) == FSub(acc.total_bought, acc.total_sold)

\* Variant: no entry is skipped.
SkipsNothing(net) == FALSE

\* net_size.abs() < 0.0001
Skipped(net) == FLt(FAbs(net), Epsilon)

avg_price(acc) ==
    IF FGt(acc.total_bought, FZero(0)) THEN FDiv(acc.total_cost, acc.total_bought)
    ELSE FZero(0)

\* Variant: the sale proceeds alone, without the cost basis of what was sold.
realized_pnl_gross(acc, avg) == acc.total_proceeds

realized_pnl(acc, avg) == FSub(acc.total_proceeds, FMul(acc.total_sold, avg))

\* Variant: a lookup for every emitted entry when prices are requested.
NeedsMidpointWhenAsked(include, net) == include

\* include_prices && net_size > 0.0
NeedsMidpoint(include, net) == include /\ FGt(net, FZero(0))

\* Variant: a failed lookup is priced at 0 instead of yielding 0.
unrealized_pnl_at_zero_price(mid, avg, net) ==
    FMul(FSub(IF mid.tag = "Ok" THEN ParseF64Or0(mid.value) ELSE FZero(0), avg), net)

\* The match on the result of get_midpoint.
unrealized_pnl(mid, avg, net) ==
    IF mid.tag = "Ok" THEN FMul(FSub(ParseF64Or0(mid.value), avg), net)
    ELSE FZero(0)

MakePosition(acc, asset_id, net, avg, realized, unrealized) ==
    [market         |-> acc.market,
     asset_id       |-> asset_id,
     size           |-> FormatFixed(net, 6),
     average_price  |-> FormatFixed(avg, 4),
     realized_pnl   |-> FormatFixed(realized, 4),
     unrealized_pnl |-> FormatFixed(unrealized, 4)]

\* The Position pushed for `asset_id` when the unrealized PnL is `unrealized`.
PositionOf(acc, asset_id, unrealized) ==
    LET With(net, avg) ==
            MakePosition(acc, asset_id, net, avg, realized_pnl(acc, avg), unrealized)
    IN  With(net_size(acc), avg_price(acc))

\* The Position pushed for `asset_id` after get_midpoint has returned `mid`.
PositionAfterMidpoint(acc, asset_id, mid) ==
    PositionOf(acc, asset_id, unrealized_pnl(mid, avg_price(acc), net_size(acc)))

(***************************************************************************)
(* State                                                                   *)
(***************************************************************************)
VARIABLES
    clock,          \* SystemTime::now() since UNIX_EPOCH: [secs, nanos]
    pc,             \* where the call in flight stands
    call,           \* the call in flight: its name and arguments
    order_data,     \* Some(OrderData) once create_and_sign_order has built it
    clob_auth,      \* Some(ClobAuth message) once create_api_key has built it
    digests,        \* the values eip712_hash has returned during the call
    sign_requests,  \* the [key, digest] pairs handed to sign_hash during the call
    http_requests,  \* the requests sent during the call
    result,         \* None, or Some(Ok/Err record) once the call has returned
    trades,         \* get_positions: the data of the trades response
    position_map,   \* get_positions: token id -> PositionAccumulator
    folded,         \* get_positions: how many trades the loop has folded
    pending,        \* get_positions: the map entries the second loop has yet to visit
    positions,      \* get_positions: the Vec<Position> built so far
    midpoint_log,   \* get_positions: the get_midpoint calls and their results
    kept,           \* None, or Some(the previous call as its caller kept it)
    client,         \* None, or Some(the ClobClient that has been constructed)
    service,        \* None, or Some(the PolymarketService that has been started)
    all_trades,     \* get_trades: None, or Some(the TradesResponse gathered so far)
    page,           \* get_trades: the pages fetched
    all_markets,    \* retrieve_all_markets: the markets gathered so far
    cursor,         \* retrieve_all_markets: None, or Some(the cursor of the next request)
    pages_fetched,  \* retrieve_all_markets: the pages fetched
    parked          \* the futures that have started and are not being polled

call_vars == <<pc, call, result>>

order_vars == <<order_data, clob_auth, digests, sign_requests>>

position_vars == <<trades, position_map, folded, pending, positions, midpoint_log>>

page_vars == <<all_trades, page, all_markets, cursor, pages_fetched>>

\* What the calls of one future leave alone: the objects they borrow and the
\* locals of the futures that are not being polled.
held_vars == <<client, service, parked>>

vars ==
    <<clock, call_vars, order_vars, http_requests, position_vars, kept, page_vars,
      held_vars>>

Ok(v) == [tag |-> "Ok", value |-> v]

Err(kind) == [tag |-> "Err", kind |-> kind]

NoCall == [fn |-> "none"]

(***************************************************************************)
(* Inputs of the order calls                                               *)
(***************************************************************************)
EpochSecs == 17 * 10^8

MaxTicks == 1

ProcessIds == {7, 4242}

TokenIds == {<<"7", "1", "3", "2", "1">>, <<"7", "x", "1">>}

Prices ==
    {Dec(FALSE, 0, 0), Dec(FALSE, 45, 2), Dec(FALSE, 57, 2), Dec(FALSE, 1, 0),
     Dec(FALSE, 15, 1), Dec(TRUE, 5, 1)}

Sizes == {Dec(FALSE, 0, 0), Dec(FALSE, 100, 0), Dec(FALSE, 25, 1)}

OrderExtras ==
    {[fee_rate_bps |-> 0, expiration |-> None, nonce |-> None],
     [fee_rate_bps |-> 30, expiration |-> Some(18 * 10^8), nonce |-> Some(7)]}

OrderParamsSet ==
    {[token_id |-> t, side |-> sd, price |-> p, size |-> sz,
      fee_rate_bps |-> x.fee_rate_bps, expiration |-> x.expiration,
      nonce |-> x.nonce] :
        t \in TokenIds, sd \in {"Buy", "Sell"}, p \in Prices, sz \in Sizes,
        x \in OrderExtras}

\* The clock readings a call that starts at `now` may take afterwards.
LaterReadings(now) ==
    {[now EXCEPT !.nanos = n] : n \in now.nanos..MaxTicks}

(***************************************************************************)
(* create_and_sign_order and place_order (actions/orders.rs)               *)
(***************************************************************************)
Finish(r) ==
    /\ pc' = "done"
    /\ result' = Some(r)

\* Variant: the hash handed to sign_hash is chained to the one of the
\* previous call.
SignHashCallChained(key, hash) ==
    LET Chained(value) ==
            /\ digests' = Append(digests, value)
            /\ sign_requests' = Append(sign_requests, [key |-> key, digest |-> value])
    IN  /\ Chained(IF kept = None \/ kept[1].digests = <<>> THEN hash
                   ELSE Keccak256(HashBytes(kept[1].digests[1]) \o HashBytes(hash)))
        /\ pc' = "sign"
        /\ UNCHANGED result

\* `hash` is handed to sign_hash under `key`.
SignHashCall(key, hash) ==
    /\ digests' = Append(digests, hash)
    /\ sign_requests' = Append(sign_requests, [key |-> key, digest |-> hash])
    /\ pc' = "sign"
    /\ UNCHANGED result

\* create_and_sign_order up to `.sign_hash(&hash.into()).await`.
CreateAndSignOrderBegin(key, neg_risk, params, now_nonce) ==
    LET HashOrder(order) ==
            /\ order_data' = Some(order)
            /\ SignHashCall(key, eip712_hash(neg_risk, order))
        \* `token` is the result of parsing params.token_id.
        WithToken(token) ==
            IF ~token.ok
            THEN /\ Finish(Err("InvalidToken"))
                 /\ UNCHANGED <<order_data, digests, sign_requests>>
            ELSE HashOrder(BuildOrderData(key, params, token.v, clock, now_nonce))
    IN  WithToken(ParseU256(params.token_id))

create_and_sign_order(key, neg_risk, params, now_nonce) ==
    /\ pc = "idle"
    /\ ValidKey(key)
    /\ call' = [fn |-> "create_and_sign_order", key |-> key,
                neg_risk |-> neg_risk, params |-> params]
    /\ clock' = now_nonce
    /\ CreateAndSignOrderBegin(key, neg_risk, params, now_nonce)
    /\ UNCHANGED <<clob_auth, http_requests, position_vars, kept, page_vars, held_vars>>

\* The parameter validation at the head of place_order.
PriceInDomain(params) ==
    LET Check(price_f64) == ~(FLe(price_f64, FZero(0)) \/ FGt(price_f64, FFromInt(1)))
    IN  Check(DecimalToF64(params.price))

\* Variant: a size of zero passes the validation.
SizeNotNegative(params) == ~FLt(DecimalToF64(params.size), FZero(0))

SizeInDomain(params) == ~FLe(DecimalToF64(params.size), FZero(0))

\* `has_credentials` is client.has_credentials(), which place_order never
\* consults.
place_order(has_credentials, key, neg_risk, params, now_nonce) ==
    /\ pc = "idle"
    /\ call' = [fn |-> "place_order", has_credentials |-> has_credentials,
                key |-> key, neg_risk |-> neg_risk, params |-> params]
    /\ IF ~PriceInDomain(params) \/ ~SizeInDomain(params)
       THEN /\ Finish(Err("InvalidOrder"))
            /\ UNCHANGED <<clock, order_data, digests, sign_requests>>
       ELSE IF ~ValidKey(key)
       THEN /\ Finish(Err("ConfigError"))
            /\ UNCHANGED <<clock, order_data, digests, sign_requests>>
       ELSE /\ clock' = now_nonce
            /\ CreateAndSignOrderBegin(key, neg_risk, params, now_nonce)
    /\ UNCHANGED <<clob_auth, http_requests, position_vars, kept, page_vars, held_vars>>

(***************************************************************************)
(* create_api_key (actions/api_keys.rs)                                    *)
(***************************************************************************)
\* create_api_key up to `.sign_hash(&hash.into()).await`; ApiKeyCreator::new
\* has parsed the key.
create_api_key(key, now_nonce, process_id) ==
    /\ pc = "idle"
    /\ ValidKey(key)
    /\ call' = [fn |-> "create_api_key", key |-> key]
    /\ clock' = now_nonce
    /\ LET HashClobAuth(auth) ==
               /\ clob_auth' = Some(auth)
               /\ SignHashCall(key, clob_eip712_hash(auth.address, auth.timestamp,
                                                     auth.nonce))
       IN  HashClobAuth(ClobAuthOf(key, clock, now_nonce, process_id))
    /\ UNCHANGED <<order_data, http_requests, position_vars, kept, page_vars, held_vars>>

\* The request sent once sign_hash has returned `signature`.
RequestAfterSign(signature) ==
    IF call.fn = "create_api_key"
    THEN [to |-> "/auth/api-key", body |-> CreateApiKeyRequest(clob_auth[1], signature)]
    ELSE [to |-> "/order", body |-> MakeSignedOrder(order_data[1], signature)]

\* sign_hash returns: with a signature, or with an error mapped to ApiError.
SignDone(ok) ==
    /\ pc = "sign"
    /\ IF ~ok
       THEN /\ Finish(Err("ApiError"))
            /\ UNCHANGED http_requests
       ELSE IF call.fn = "create_and_sign_order"
       THEN /\ Finish(Ok(MakeSignedOrder(
                            order_data[1],
                            Signature(call.key, digests[Len(digests)]))))
            /\ UNCHANGED http_requests
       ELSE /\ http_requests' =
                   Append(http_requests,
                          RequestAfterSign(Signature(call.key, digests[Len(digests)])))
            /\ pc' = "post"
            /\ UNCHANGED result
    /\ UNCHANGED <<clock, call, order_vars, position_vars, kept, page_vars, held_vars>>

\* Variant: a failed POST is sent once more before the failure is returned.
PostDoneResubmitting(outcome) ==
    /\ pc = "post"
    /\ IF outcome # "Ok" /\ Len(http_requests) < 2
       THEN /\ http_requests' = Append(http_requests, http_requests[1])
            /\ UNCHANGED <<pc, result>>
       ELSE /\ Finish(IF outcome = "Ok"
                      THEN Ok(IF call.fn = "place_order" THEN "OrderResponse"
                              ELSE "ApiKeyCreds")
                      ELSE Err(outcome))
            /\ UNCHANGED http_requests
    /\ UNCHANGED <<clock, call, order_vars, position_vars, kept, page_vars, held_vars>>

\* The POST of place_order (ClobClient::post_order) or of create_api_key returns.
PostDone(outcome) ==
    /\ pc = "post"
    /\ Finish(IF outcome = "Ok"
              THEN Ok(IF call.fn = "place_order" THEN "OrderResponse" ELSE "ApiKeyCreds")
              ELSE Err(outcome))
    /\ UNCHANGED <<clock, call, order_vars, http_requests, position_vars, kept, page_vars, held_vars>>

\* The call is over: the next one starts from a clean slate, and the caller
\* has `taken` of the call that returned.
Returned(taken) ==
    /\ pc = "done"
    /\ pc' = "idle"
    /\ call' = NoCall
    /\ order_data' = None
    /\ clob_auth' = None
    /\ digests' = <<>>
    /\ sign_requests' = <<>>
    /\ http_requests' = <<>>
    /\ result' = None
    /\ trades' = <<>>
    /\ position_map' = <<>>
    /\ folded' = 0
    /\ pending' = {}
    /\ positions' = <<>>
    /\ midpoint_log' = <<>>
    /\ kept' = taken
    /\ all_trades' = None
    /\ page' = 0
    /\ all_markets' = <<>>
    /\ cursor' = None
    /\ pages_fetched' = 0
    /\ UNCHANGED held_vars
    /\ UNCHANGED clock

\* The caller takes the result and keeps nothing of earlier calls.
Return == Returned(kept)

\* The caller takes the result and keeps, for the next call, what was called,
\* what was hashed and signed, and what came back.
ReturnKeeping ==
    Returned(Some([call |-> call, order_data |-> order_data, clob_auth |-> clob_auth,
                   digests |-> digests, sign_requests |-> sign_requests,
                   result |-> result[1]]))

\* Time passes between calls.
Tick ==
    /\ pc = "idle"
    /\ clock.nanos < MaxTicks
    /\ clock' = [clock EXCEPT !.nanos = @ + 1]
    /\ UNCHANGED <<call_vars, order_vars, http_requests, position_vars, kept, page_vars, held_vars>>

(***************************************************************************)
(* Inputs of get_positions                                                 *)
(***************************************************************************)
MaxTrades == 3

TradeEntry(token_id, side, price, size) ==
    [token_id |-> token_id, market_id |-> <<"market-of", token_id>>,
     side |-> side, price |-> price, size |-> size]

\* The trade records a trades response is drawn from: the records of one book,
\* each at most once, in any order.
TradeBooks ==
    { { TradeEntry("token-a", "Buy",  <<"0", ".", "4", "0">>, <<"1", "0">>),
        TradeEntry("token-a", "Buy",  <<"0", ".", "6", "0">>, <<"1", "0">>),
        TradeEntry("token-a", "Sell", <<"0", ".", "7", "0">>, <<"1", "5">>),
        TradeEntry("token-b", "Buy",  <<"0", ".", "5">>, <<"1", "0">>) },
      { TradeEntry("token-b", "Buy",  <<"0", ".", "5">>, <<"1", "0">>),
        TradeEntry("token-b", "Sell", <<"0", ".", "6">>, <<"1", "0">>),
        TradeEntry("token-b", "Buy",  <<"0", ".", "5">>, <<"-", "5">>) },
      { TradeEntry("token-a", "Buy",  <<"0", ".", "4", "0">>, <<"1", "0">>),
        TradeEntry("token-a", "Buy",  <<"a", "b", "c">>, <<"3">>),
        TradeEntry("token-a", "Sell", <<"0", ".", "5">>, <<"x">>),
        TradeEntry("token-b", "Buy",  <<"0", ".", "5">>, <<"0", ".", "0", "0", "0", "1">>) },
      { TradeEntry("token-c", "Buy",  <<"0", ".", "5">>,
                   <<"0", ".", "0", "0", "0", "0", "0", "1">>),
        TradeEntry("token-c", "Buy",  <<"0", ".", "5">>,
                   <<"0", ".", "0", "0", "0", "0", "0", "2">>),
        TradeEntry("token-c", "Buy",  <<"0", ".", "5">>,
                   <<"0", ".", "0", "0", "0", "0", "9", "7">>) } }

Range(seq) == {seq[i] : i \in 1..Len(seq)}

\* The lists of exactly n distinct records of `book`.
RECURSIVE ListsOfLen(_, _)
ListsOfLen(book, n) ==
    IF n = 0 THEN {<<>>}
    ELSE UNION {{Append(l, r) : r \in book \ Range(l)} : l \in ListsOfLen(book, n - 1)}

TradeLists ==
    UNION {ListsOfLen(book, n) : book \in TradeBooks, n \in 0..MaxTrades}

\* What get_midpoint may return.
MidpointResults ==
    {Ok(<<"0", ".", "5", "5">>), Ok(<<"n", "/", "a">>),
     Err("NetworkError"), Err("ApiError")}

(***************************************************************************)
(* get_positions (actions/trading.rs)                                      *)
(***************************************************************************)
\* The second loop has visited `asset_id`; `built` is the Vec<Position> now.
\* After the last entry get_positions returns Ok(positions).
Visited(asset_id, built) ==
    /\ pending' = pending \ {asset_id}
    /\ positions' = built
    /\ IF pending = {asset_id}
       THEN Finish(Ok(built))
       ELSE pc' = "emit" /\ UNCHANGED result

\* get_positions up to the end of get_trades, which returns `response`.
get_positions(has_credentials, include_prices, response) ==
    /\ pc = "idle"
    /\ call' = [fn |-> "get_positions", has_credentials |-> has_credentials,
                include_prices |-> include_prices]
    /\ IF ~has_credentials
       THEN /\ Finish(Err("AuthError"))
            /\ UNCHANGED <<http_requests, trades>>
       ELSE /\ http_requests' = Append(http_requests, [to |-> "/trades"])
            /\ IF response.tag = "Err"
               THEN Finish(response) /\ UNCHANGED trades
               ELSE /\ trades' = response.value
                    /\ IF response.value = <<>>
                       THEN Finish(Ok(<<>>))
                       ELSE pc' = "fold" /\ UNCHANGED result
    /\ UNCHANGED <<clock, order_vars, position_map, folded, pending, positions,
                   midpoint_log, kept, page_vars, held_vars>>

\* `map` is the position_map after the next trade; after the last trade the
\* second loop starts.
Folded(map) ==
    /\ position_map' = map
    /\ folded' = folded + 1
    /\ IF folded + 1 = Len(trades)
       THEN pc' = "emit" /\ pending' = DOMAIN map
       ELSE UNCHANGED <<pc, pending>>

\* One iteration of the first loop.
FoldNext ==
    /\ pc = "fold"
    /\ Folded(FoldTrade(position_map, trades[folded + 1]))
    /\ UNCHANGED <<clock, call, result, order_vars, http_requests, trades,
                   positions, midpoint_log, kept, page_vars, held_vars>>

\* `net` is the net size of the entry of `asset_id`.
Visit(asset_id, net) ==
    IF Skipped(net)
    THEN /\ Visited(asset_id, positions)
         /\ UNCHANGED <<midpoint_log, http_requests>>
    ELSE IF NeedsMidpoint(call.include_prices, net)
    THEN /\ pc' = "midpoint"
         /\ midpoint_log' = Append(midpoint_log, [token_id |-> asset_id, result |-> None])
         /\ http_requests' = Append(http_requests, [to |-> "/midpoint", token_id |-> asset_id])
         /\ UNCHANGED <<pending, positions, result>>
    ELSE /\ Visited(asset_id,
                    Append(positions, PositionOf(position_map[asset_id], asset_id, FZero(0))))
         /\ UNCHANGED <<midpoint_log, http_requests>>

\* One iteration of the second loop, up to its get_midpoint call if it makes
\* one.  A HashMap yields its entries in an arbitrary order.
EmitNext(asset_id) ==
    /\ pc = "emit"
    /\ asset_id \in pending
    /\ Visit(asset_id, net_size(position_map[asset_id]))
    /\ UNCHANGED <<clock, call, order_vars, trades, position_map, folded, kept, page_vars, held_vars>>

\* get_midpoint returns `mid` for the entry the second loop is at.
MidpointDone(mid) ==
    /\ pc = "midpoint"
    /\ midpoint_log' =
           [midpoint_log EXCEPT ![Len(midpoint_log)].result = Some(mid)]
    /\ Visited(midpoint_log[Len(midpoint_log)].token_id,
               Append(positions,
                      PositionAfterMidpoint(
                          position_map[midpoint_log[Len(midpoint_log)].token_id],
                          midpoint_log[Len(midpoint_log)].token_id, mid)))
    /\ UNCHANGED <<clock, call, order_vars, http_requests, trades, position_map,
                   folded, kept, page_vars, held_vars>>

(***************************************************************************)
(* ClobClient (client.rs), handle_authentication (actions/account.rs) and  *)
(* PolymarketService (service.rs)                                          *)
(***************************************************************************)
ApiKeyCredsSet ==
    {[key |-> "api-key-1", secret |-> "secret-1", passphrase |-> "pass-1"],
     [key |-> "api-key-2", secret |-> "secret-2", passphrase |-> "pass-2"]}

\* ClobClient::new; `built` is whether Client::builder() .. .build() succeeded.
ClobClientNew(private_key, built) ==
    IF ~ValidKey(private_key) THEN Err("ConfigError")
    ELSE IF ~built THEN Err("NetworkError")
    ELSE Ok([address |-> SignerAddress(private_key), creds |-> None])

\* ClobClient::new_with_creds
ClobClientNewWithCreds(private_key, built, creds) ==
    LET WithCreds(made) ==
            IF made.tag = "Err" THEN made
            ELSE Ok([made.value EXCEPT !.creds = Some(creds)])
    IN  WithCreds(ClobClientNew(private_key, built))

\* ClobClient::has_credentials
HasCredentials(c) == c.creds # None

\* A call `c` that returns `r` without waiting for anything.
Immediate(c, r) ==
    /\ pc = "idle"
    /\ call' = c
    /\ Finish(r)
    /\ UNCHANGED <<clock, order_vars, http_requests, position_vars, kept, page_vars,
                   parked>>

\* The caller constructs a client and, if that succeeds, holds it.
Constructed(c, made) ==
    /\ Immediate(c, made)
    /\ client' = IF made.tag = "Ok" THEN Some(made.value) ELSE client
    /\ UNCHANGED service

new(private_key, built) ==
    Constructed([fn |-> "new", key |-> private_key], ClobClientNew(private_key, built))

new_with_creds(private_key, built, creds) ==
    Constructed([fn |-> "new_with_creds", key |-> private_key, creds |-> creds],
                ClobClientNewWithCreds(private_key, built, creds))

\* Variant: the passphrase is reported as present whatever the credentials.
AuthenticationStatusWithPassphrase(c) ==
    <<c.address # AddressZero, HasCredentials(c), HasCredentials(c), TRUE,
      c.address # AddressZero /\ HasCredentials(c)>>

\* The tuple (has_private_key, has_api_key, has_api_secret, has_api_passphrase,
\* is_fully_authenticated) of client `c`.
AuthenticationStatus(c) ==
    LET Status(has_creds, has_private_key) ==
            <<has_private_key, has_creds, has_creds, has_creds,
              has_private_key /\ has_creds>>
    IN  Status(HasCredentials(c), c.address # AddressZero)

handle_authentication ==
    /\ client # None
    /\ Immediate([fn |-> "handle_authentication"], Ok(AuthenticationStatus(client[1])))
    /\ UNCHANGED <<client, service>>

\* The caller starts a service and, if that succeeds, holds it.
Started(c, made) ==
    /\ Immediate(c, made)
    /\ service' = IF made.tag = "Ok" THEN Some(made.value) ELSE service
    /\ UNCHANGED client

\* PolymarketService::start
start(private_key, built) ==
    LET Wrap(clob_client) ==
            IF clob_client.tag = "Err" THEN clob_client
            ELSE Ok([clob_client |-> clob_client.value, authenticated_client |-> None])
    IN  Started([fn |-> "start", key |-> private_key],
                Wrap(ClobClientNew(private_key, built)))

\* PolymarketService::start_with_creds; `built` and `built_again` are the
\* outcomes of the two constructions.
start_with_creds(private_key, creds, built, built_again) ==
    LET Wrap(clob_client, authenticated) ==
            IF clob_client.tag = "Err" THEN clob_client
            ELSE IF authenticated.tag = "Err" THEN authenticated
            ELSE Ok([clob_client |-> clob_client.value,
                     authenticated_client |-> Some(authenticated.value)])
    IN  Started([fn |-> "start_with_creds", key |-> private_key, creds |-> creds],
                Wrap(ClobClientNew(private_key, built),
                     ClobClientNewWithCreds(private_key, built_again, creds)))

\* PolymarketService::client; the reference it returns lives until the caller
\* has taken the result.
service_client ==
    /\ service # None
    /\ Immediate([fn |-> "client"], Ok(service[1].clob_client))
    /\ UNCHANGED <<client, service>>

\* PolymarketService::authenticated_client
service_authenticated_client ==
    /\ service # None
    /\ Immediate([fn |-> "authenticated_client"],
                 IF service[1].authenticated_client = None THEN Err("AuthError")
                 ELSE Ok(service[1].authenticated_client[1]))
    /\ UNCHANGED <<client, service>>

\* Variant: stop leaves the authenticated client in place.
stop_keeping_client ==
    /\ service # None
    /\ Immediate([fn |-> "stop"], Ok("()"))
    /\ UNCHANGED <<client, service>>

\* PolymarketService::stop
stop ==
    /\ service # None
    /\ Immediate([fn |-> "stop"], Ok("()"))
    /\ service' = Some([service[1] EXCEPT !.authenticated_client = None])
    /\ UNCHANGED client

(***************************************************************************)
(* setup_websocket and handle_realtime_updates (actions/realtime.rs)       *)
(***************************************************************************)
\* PolymarketError::config_error(message)
ConfigError(message) == [tag |-> "Err", kind |-> "ConfigError", message |-> message]

valid_channels == <<"book", "price", "trade", "ticker", "user">>

\* Variant: the channel list is looked at before the URL.
WebsocketConfigChannelsFirst(ws_url, channels, asset_ids, authenticated) ==
    IF channels = <<>> THEN ConfigError("At least one channel must be specified")
    ELSE IF \E i \in 1..Len(channels) : channels[i] \notin Range(valid_channels)
    THEN ConfigError(<<"Invalid channel", channels>>)
    ELSE IF ws_url = "" THEN ConfigError("WebSocket URL is required")
    ELSE Ok([url |-> ws_url, channels |-> channels, asset_ids |-> asset_ids,
             authenticated |-> authenticated, status |-> "Disconnected"])

\* The result of setup_websocket.
WebsocketConfigOf(ws_url, channels, asset_ids, authenticated) ==
    IF ws_url = "" THEN ConfigError("WebSocket URL is required")
    ELSE IF channels = <<>> THEN ConfigError("At least one channel must be specified")
    ELSE IF \E i \in 1..Len(channels) : channels[i] \notin Range(valid_channels)
    THEN ConfigError(<<"Invalid channel",
                       channels[CHOOSE i \in 1..Len(channels) :
                                    /\ channels[i] \notin Range(valid_channels)
                                    /\ \A j \in 1..(i - 1) :
                                           channels[j] \in Range(valid_channels)]>>)
    ELSE Ok([url |-> ws_url, channels |-> channels, asset_ids |-> asset_ids,
             authenticated |-> authenticated, status |-> "Disconnected"])

\* The result of handle_realtime_updates; channel and asset_ids are Options.
RealtimeUpdateOf(action, channel, asset_ids) ==
    IF action = "subscribe"
    THEN (IF channel = None THEN ConfigError("Channel is required for subscription")
          ELSE IF asset_ids = None
          THEN ConfigError("Asset IDs are required for subscription")
          ELSE IF asset_ids[1] = <<>>
          THEN ConfigError("At least one asset ID is required for subscription")
          ELSE Ok(<<"Subscribed to", channel[1], asset_ids[1]>>))
    ELSE IF action = "unsubscribe"
    THEN (IF channel = None THEN ConfigError("Channel is required for unsubscription")
          ELSE Ok(<<"Unsubscribed from", channel[1]>>))
    ELSE IF action = "status" THEN Ok("WebSocket status")
    ELSE ConfigError(<<"Invalid action", action>>)

WsUrls == {"", "wss://example.com/ws"}

ChannelLists ==
    {<<>>, <<"book">>, <<"nope">>, <<"book", "user">>, <<"price", "nope">>,
     <<"trade", "ticker">>, <<"", "book">>}

AssetIdLists == {<<>>, <<"71321">>, <<"71321", "52114">>}

RealtimeActions == {"subscribe", "unsubscribe", "status", "nope", ""}

setup_websocket(ws_url, channels, asset_ids, authenticated) ==
    /\ client # None
    /\ Immediate([fn |-> "setup_websocket", ws_url |-> ws_url, channels |-> channels,
                  asset_ids |-> asset_ids, authenticated |-> authenticated],
                 WebsocketConfigOf(ws_url, channels, asset_ids, authenticated))
    /\ UNCHANGED <<client, service>>

handle_realtime_updates(action, channel, asset_ids) ==
    /\ client # None
    /\ Immediate([fn |-> "handle_realtime_updates", action |-> action,
                  channel |-> channel, asset_ids |-> asset_ids],
                 RealtimeUpdateOf(action, channel, asset_ids))
    /\ UNCHANGED <<client, service>>

(***************************************************************************)
(* ClobClient::get_trades (client.rs) and retrieve_all_markets             *)
(* (actions/markets.rs): the requests of a paginated listing               *)
(***************************************************************************)
MaxPages == 3

END_CURSOR == "LTE="

\* What may come of one GET: a transport error, a status that is no success,
\* a body that does not parse, or one of `bodies`.
HttpOutcomes(bodies) ==
    {[tag |-> "transport"], [tag |-> "status"], [tag |-> "unparsable"]}
        \cup {[tag |-> "page", body |-> b] : b \in bodies}

Cursors == {"", "LTE=", "MQ==", "Mg=="}

\* The TradesResponse bodies a page may have.
TradesPages ==
    {[data |-> d, next_cursor |-> c] :
        d \in {<<>>,
               <<TradeEntry("token-a", "Buy", <<"0", ".", "4", "0">>, <<"1", "0">>)>>,
               <<TradeEntry("token-a", "Sell", <<"0", ".", "7", "0">>, <<"1", "0">>),
                 TradeEntry("token-b", "Buy", <<"0", ".", "5">>, <<"1", "0">>)>>},
        c \in Cursors}

\* The values of the max_pages argument.
MaxPagesArgs == {None} \cup {Some(n) : n \in 0..MaxPages}

\* A GET of `to`, with the cursor it carries and, once it is there, the
\* outcome.
PageRequest(to, next_cursor) ==
    [to |-> to, next_cursor |-> next_cursor, response |-> None]

\* The requests so far, the last one answered by `outcome`.
Answered(outcome) ==
    [http_requests EXCEPT ![Len(http_requests)].response = Some(outcome)]

\* get_trades up to its first `.send().await`, inside call `c`.
GetTradesBegin(c) ==
    /\ pc = "idle"
    /\ call' = c
    /\ pc' = "trades"
    /\ http_requests' = Append(http_requests, PageRequest("/trades", None))
    /\ UNCHANGED <<clock, result, order_vars, position_vars, kept, page_vars,
                   held_vars>>

get_trades(max_pages) == GetTradesBegin([fn |-> "get_trades", max_pages |-> max_pages])

\* get_positions up to the first request of get_trades.
get_positions_paging(has_credentials, include_prices, max_pages) ==
    IF ~has_credentials
    THEN /\ pc = "idle"
         /\ call' = [fn |-> "get_positions", has_credentials |-> has_credentials,
                     include_prices |-> include_prices, max_pages |-> max_pages]
         /\ Finish(Err("AuthError"))
         /\ UNCHANGED <<clock, order_vars, http_requests, position_vars, kept,
                        page_vars, held_vars>>
    ELSE GetTradesBegin([fn |-> "get_positions", has_credentials |-> has_credentials,
                         include_prices |-> include_prices, max_pages |-> max_pages])

\* get_trades returns Ok(response): to its caller, or into get_positions,
\* which goes on to its first loop.
GetTradesOk(response) ==
    IF call.fn = "get_trades"
    THEN Finish(Ok(response)) /\ UNCHANGED trades
    ELSE /\ trades' = response.data
         /\ IF response.data = <<>>
            THEN Finish(Ok(<<>>))
            ELSE pc' = "fold" /\ UNCHANGED result

\* Variant: the loop goes on while page <= max_pages.
TradesLoopInclusive(outcome, response, fetched) ==
    /\ all_trades' = Some(response)
    /\ page' = fetched
    /\ IF /\ fetched <= (IF call.max_pages = None THEN 1 ELSE call.max_pages[1])
          /\ response.next_cursor # ""
          /\ response.next_cursor # "LTE="
       THEN /\ http_requests' =
                   Append(Answered(outcome),
                          PageRequest("/trades", Some(response.next_cursor)))
            /\ UNCHANGED <<pc, result, trades>>
       ELSE /\ http_requests' = Answered(outcome)
            /\ GetTradesOk(response)

\* The loop test of get_trades after `response` has become all_trades and
\* `fetched` pages are in: another request, or the return.
TradesLoop(outcome, response, fetched) ==
    /\ all_trades' = Some(response)
    /\ page' = fetched
    /\ IF /\ fetched < (IF call.max_pages = None THEN 1 ELSE call.max_pages[1])
          /\ response.next_cursor # ""
          /\ response.next_cursor # "LTE="
       THEN /\ http_requests' =
                   Append(Answered(outcome),
                          PageRequest("/trades", Some(response.next_cursor)))
            /\ UNCHANGED <<pc, result, trades>>
       ELSE /\ http_requests' = Answered(outcome)
            /\ GetTradesOk(response)

\* Variant: a follow-up page with a status that is no success is an error,
\* as it is for the first page.
TradesStatusFailing(outcome) ==
    /\ Finish(Err("ApiError"))
    /\ http_requests' = Answered(outcome)
    /\ UNCHANGED <<all_trades, page, trades>>

\* A response with a status that is no success: an error for the first
\* request, the end of the loop for a later one.
TradesStatus(outcome) ==
    /\ http_requests' = Answered(outcome)
    /\ IF all_trades = None
       THEN Finish(Err("ApiError")) /\ UNCHANGED trades
       ELSE GetTradesOk(all_trades[1])
    /\ UNCHANGED <<all_trades, page>>

\* The response to a request of get_trades is there.
TradesPageDone(outcome) ==
    /\ pc = "trades"
    /\ IF outcome.tag \in {"transport", "unparsable"}
       THEN /\ Finish(Err(IF outcome.tag = "transport" THEN "NetworkError"
                          ELSE "ApiError"))
            /\ http_requests' = Answered(outcome)
            /\ UNCHANGED <<all_trades, page, trades>>
       ELSE IF outcome.tag = "status" THEN TradesStatus(outcome)
       ELSE IF all_trades = None THEN TradesLoop(outcome, outcome.body, 1)
       ELSE TradesLoop(outcome,
                       [data |-> all_trades[1].data \o outcome.body.data,
                        next_cursor |-> outcome.body.next_cursor],
                       page + 1)
    /\ UNCHANGED <<clock, call, order_vars, position_map, folded, pending, positions,
                   midpoint_log, kept, all_markets, cursor, pages_fetched, held_vars>>

\* The Market records a page may list: open, closed, and neither.
MarketsOf(ids) ==
    [i \in 1..Len(ids) |->
        [condition_id |-> ids[i], active |-> ids[i] # "m3", closed |-> ids[i] = "m2"]]

\* The MarketsResponse bodies a page may have, for a call with `max_pages`:
\* the call that runs to the default of ten pages sees one market per page.
MarketsPages(max_pages) ==
    IF max_pages = None
    THEN {[data |-> MarketsOf(<<"m1">>), next_cursor |-> c] : c \in {"LTE=", "MQ=="}}
    ELSE {[data |-> MarketsOf(ids), next_cursor |-> c] :
             ids \in {<<>>, <<"m1">>, <<"m2", "m3">>}, c \in Cursors}

\* RetrieveAllMarketsSummary { .. }
Summary(markets, fetched) ==
    [total_markets |-> Len(markets),
     active_count |->
         Cardinality({i \in 1..Len(markets) : markets[i].active /\ ~markets[i].closed}),
     closed_count |-> Cardinality({i \in 1..Len(markets) : markets[i].closed}),
     pages_fetched |-> fetched,
     markets |-> markets]

\* The head of the loop of retrieve_all_markets with `fetched` pages in and
\* `next` the cursor to go on with: the return, or another request.
MarketsLoop(max_pages, requests, markets, fetched, next) ==
    IF fetched >= (IF max_pages = None THEN 10 ELSE max_pages[1])
    THEN /\ Finish(Ok(Summary(markets, fetched)))
         /\ http_requests' = requests
    ELSE /\ http_requests' = Append(requests, PageRequest("/markets", next))
         /\ pc' = "markets"
         /\ UNCHANGED result

retrieve_all_markets(max_pages) ==
    /\ pc = "idle"
    /\ call' = [fn |-> "retrieve_all_markets", max_pages |-> max_pages]
    /\ MarketsLoop(max_pages, http_requests, <<>>, 0, None)
    /\ UNCHANGED <<clock, order_vars, position_vars, kept, page_vars, held_vars>>

\* Variant: a page that fails ends the listing with what has been gathered.
MarketsPageFailedKeeping(outcome) ==
    /\ Finish(Ok(Summary(all_markets, pages_fetched)))
    /\ http_requests' = Answered(outcome)
    /\ UNCHANGED <<all_markets, cursor, pages_fetched>>

\* client.get_markets(..).await? has returned an Err.
MarketsPageFailed(outcome) ==
    /\ Finish(Err(IF outcome.tag = "transport" THEN "NetworkError" ELSE "ApiError"))
    /\ http_requests' = Answered(outcome)
    /\ UNCHANGED <<all_markets, cursor, pages_fetched>>

\* The response to a request of retrieve_all_markets is there.
MarketsPageDone(outcome) ==
    /\ pc = "markets"
    /\ IF outcome.tag # "page" THEN MarketsPageFailed(outcome)
       ELSE /\ all_markets' = all_markets \o outcome.body.data
            /\ pages_fetched' = pages_fetched + 1
            /\ IF outcome.body.next_cursor = "" \/ outcome.body.next_cursor = END_CURSOR
               THEN /\ Finish(Ok(Summary(all_markets \o outcome.body.data,
                                         pages_fetched + 1)))
                    /\ http_requests' = Answered(outcome)
                    /\ UNCHANGED cursor
               ELSE /\ cursor' = Some(outcome.body.next_cursor)
                    /\ MarketsLoop(call.max_pages, Answered(outcome),
                                   all_markets \o outcome.body.data,
                                   pages_fetched + 1, Some(outcome.body.next_cursor))
    /\ UNCHANGED <<clock, call, order_vars, position_vars, kept, all_trades, page,
                   held_vars>>

(***************************************************************************)
(* Futures polled in turn.  Every variable of a call is a local of its     *)
(* async fn; the executor polls one future at a time, the others are       *)
(* parked with their locals between two of their await points.             *)
(***************************************************************************)
MaxFutures == 2

\* The locals of the future being polled.
Locals ==
    [pc |-> pc, call |-> call, result |-> result, order_data |-> order_data,
     clob_auth |-> clob_auth, digests |-> digests, sign_requests |-> sign_requests,
     http_requests |-> http_requests, trades |-> trades,
     position_map |-> position_map, folded |-> folded, pending |-> pending,
     positions |-> positions, midpoint_log |-> midpoint_log,
     all_trades |-> all_trades, page |-> page, all_markets |-> all_markets,
     cursor |-> cursor, pages_fetched |-> pages_fetched]

\* The locals of a future that has not been called yet.
FreshLocals ==
    [pc |-> "idle", call |-> NoCall, result |-> None, order_data |-> None,
     clob_auth |-> None, digests |-> <<>>, sign_requests |-> <<>>,
     http_requests |-> <<>>, trades |-> <<>>, position_map |-> <<>>, folded |-> 0,
     pending |-> {}, positions |-> <<>>, midpoint_log |-> <<>>, all_trades |-> None,
     page |-> 0, all_markets |-> <<>>, cursor |-> None, pages_fetched |-> 0]

\* The future with locals `f` is the one being polled.
Polled(f) ==
    /\ pc' = f.pc
    /\ call' = f.call
    /\ result' = f.result
    /\ order_data' = f.order_data
    /\ clob_auth' = f.clob_auth
    /\ digests' = f.digests
    /\ sign_requests' = f.sign_requests
    /\ http_requests' = f.http_requests
    /\ trades' = f.trades
    /\ position_map' = f.position_map
    /\ folded' = f.folded
    /\ pending' = f.pending
    /\ positions' = f.positions
    /\ midpoint_log' = f.midpoint_log
    /\ all_trades' = f.all_trades
    /\ page' = f.page
    /\ all_markets' = f.all_markets
    /\ cursor' = f.cursor
    /\ pages_fetched' = f.pages_fetched

\* Variant: the position_map is one accumulator that all calls work on.
ParkSharingAccumulator ==
    /\ pc \notin {"idle", "done"}
    /\ Len(parked) < MaxFutures - 1
    /\ parked' = Append(parked, Locals)
    /\ Polled([FreshLocals EXCEPT !.position_map = position_map])
    /\ UNCHANGED <<clock, kept, client, service>>

\* The future being polled is pending at an await point; the executor parks
\* it and is free to poll another or to start one.
Park ==
    /\ pc \notin {"idle", "done"}
    /\ Len(parked) < MaxFutures - 1
    /\ parked' = Append(parked, Locals)
    /\ Polled(FreshLocals)
    /\ UNCHANGED <<clock, kept, client, service>>

\* The executor polls the i-th parked future again.
Resume(i) ==
    /\ pc = "idle"
    /\ i \in 1..Len(parked)
    /\ Polled(parked[i])
    /\ parked' = SubSeq(parked, 1, i - 1) \o SubSeq(parked, i + 1, Len(parked))
    /\ UNCHANGED <<clock, kept, client, service>>

(***************************************************************************)
(* Specifications                                                          *)
(***************************************************************************)
Init ==
    /\ clock = [secs |-> EpochSecs, nanos |-> 0]
    /\ pc = "idle"
    /\ call = NoCall
    /\ order_data = None
    /\ clob_auth = None
    /\ digests = <<>>
    /\ sign_requests = <<>>
    /\ http_requests = <<>>
    /\ result = None
    /\ trades = <<>>
    /\ position_map = <<>>
    /\ folded = 0
    /\ pending = {}
    /\ positions = <<>>
    /\ midpoint_log = <<>>
    /\ kept = None
    /\ client = None
    /\ service = None
    /\ all_trades = None
    /\ page = 0
    /\ all_markets = <<>>
    /\ cursor = None
    /\ pages_fetched = 0
    /\ parked = <<>>

\* The order and API-key calls.
Next ==
    \/ \E key \in PrivateKeys, neg_risk \in BOOLEAN, params \in OrderParamsSet :
         \E now_nonce \in LaterReadings(clock) :
            create_and_sign_order(key, neg_risk, params, now_nonce)
    \/ \E key \in PrivateKeys, neg_risk \in BOOLEAN, params \in OrderParamsSet :
         \E now_nonce \in LaterReadings(clock), has_credentials \in BOOLEAN :
            place_order(has_credentials, key, neg_risk, params, now_nonce)
    \/ \E key \in PrivateKeys, process_id \in ProcessIds :
         \E now_nonce \in LaterReadings(clock) :
            create_api_key(key, now_nonce, process_id)
    \/ \E ok \in BOOLEAN : SignDone(ok)
    \/ \E outcome \in {"Ok", "NetworkError", "ApiError"} : PostDone(outcome)
    \/ Return
    \/ Tick

Spec == Init /\ [][Next]_vars

GetTradesResults ==
    {Ok(list) : list \in TradeLists} \cup {Err("NetworkError"), Err("ApiError")}

\* The get_positions calls.
PositionsNext ==
    \/ \E has_credentials \in BOOLEAN, include_prices \in BOOLEAN :
         \E response \in GetTradesResults :
            get_positions(has_credentials, include_prices, response)
    \/ FoldNext
    \/ \E asset_id \in pending : EmitNext(asset_id)
    \/ \E mid \in MidpointResults : MidpointDone(mid)
    \/ Return

PositionsSpec == Init /\ [][PositionsNext]_vars

\* Orders of every magnitude: a size whose base units truncate to zero, sizes
\* of a few shares, and a size of 2 * 10^13 shares, whose 2 * 10^19 base units
\* exceed u64::MAX; prices inside (0, 1], among them 1 - 10^-20.
AmountParams ==
    {[token_id |-> <<"7", "1", "3", "2", "1">>, side |-> sd, price |-> p,
      size |-> sz, fee_rate_bps |-> 0, expiration |-> None, nonce |-> None] :
        sd \in {"Buy", "Sell"},
        p \in {Dec(FALSE, 45, 2), Dec(FALSE, 57, 2), Dec(FALSE, 1, 0),
               [Dec(FALSE, 1, 20) EXCEPT !.mant = BSub(BMulPow10(@, 20), @)]},
        sz \in {Dec(FALSE, 1, 7), Dec(FALSE, 25, 1), Dec(FALSE, 100, 0),
                [Dec(FALSE, 2, 0) EXCEPT !.mant = BMulPow10(@, 13)]}}

\* Orders with a valid price and size, built directly and through place_order.
AmountsNext ==
    \/ \E key \in PrivateKeys, neg_risk \in BOOLEAN, params \in AmountParams :
         \E now_nonce \in LaterReadings(clock) :
            create_and_sign_order(key, neg_risk, params, now_nonce)
    \/ \E key \in PrivateKeys, neg_risk \in BOOLEAN, params \in AmountParams :
         \E now_nonce \in LaterReadings(clock), has_credentials \in BOOLEAN :
            place_order(has_credentials, key, neg_risk, params, now_nonce)
    \/ \E ok \in BOOLEAN : SignDone(ok)
    \/ \E outcome \in {"Ok", "NetworkError", "ApiError"} : PostDone(outcome)
    \/ Return
    \/ Tick

AmountsSpec == Init /\ [][AmountsNext]_vars

\* The calls that construct and use a client or a service.
ServiceNext ==
    \/ \E key \in PrivateKeys, built \in BOOLEAN : new(key, built)
    \/ \E key \in PrivateKeys, built \in BOOLEAN, creds \in ApiKeyCredsSet :
         new_with_creds(key, built, creds)
    \/ handle_authentication
    \/ \E key \in PrivateKeys, built \in BOOLEAN : start(key, built)
    \/ \E key \in PrivateKeys, creds \in ApiKeyCredsSet :
         \E built \in BOOLEAN, built_again \in BOOLEAN :
            start_with_creds(key, creds, built, built_again)
    \/ service_client
    \/ service_authenticated_client
    \/ stop
    \/ \E include_prices \in BOOLEAN, response \in {Ok(<<>>), Err("ApiError")} :
         /\ client # None
         /\ get_positions(HasCredentials(client[1]), include_prices, response)
    \/ \E ws_url \in WsUrls, channels \in ChannelLists, asset_ids \in AssetIdLists :
         \E authenticated \in BOOLEAN :
            setup_websocket(ws_url, channels, asset_ids, authenticated)
    \/ \E action \in RealtimeActions, channel \in {None, Some("book"), Some("nope")} :
         \E asset_ids \in {None} \cup {Some(ids) : ids \in AssetIdLists} :
            handle_realtime_updates(action, channel, asset_ids)
    \/ Return

ServiceSpec == Init /\ [][ServiceNext]_vars

\* The paginated listings: get_trades alone and under get_positions, and
\* retrieve_all_markets.
PagesNext ==
    \/ \E max_pages \in MaxPagesArgs : get_trades(max_pages)
    \/ \E has_credentials \in BOOLEAN, include_prices \in BOOLEAN :
         \E max_pages \in MaxPagesArgs :
            get_positions_paging(has_credentials, include_prices, max_pages)
    \/ \E outcome \in HttpOutcomes(TradesPages) : TradesPageDone(outcome)
    \/ FoldNext
    \/ \E asset_id \in pending : EmitNext(asset_id)
    \/ \E mid \in MidpointResults : MidpointDone(mid)
    \/ \E max_pages \in MaxPagesArgs : retrieve_all_markets(max_pages)
    \/ /\ pc = "markets"
       /\ \E outcome \in HttpOutcomes(MarketsPages(call.max_pages)) :
              MarketsPageDone(outcome)
    \/ Return

PagesSpec == Init /\ [][PagesNext]_vars

\* The orders two consecutive calls are made with.
RepeatParams ==
    {params \in OrderParamsSet :
        /\ params.token_id = <<"7", "1", "3", "2", "1">>
        /\ params.price = Dec(FALSE, 45, 2)
        /\ params.size = Dec(FALSE, 100, 0)
        /\ params.side = "Buy"}

\* The order of the concurrent create_and_sign_order calls: its salt and its
\* nonce come from the clock.
ConcurrentParams == {params \in RepeatParams : params.nonce = None}

\* The trades responses of the concurrent get_positions calls.
ConcurrentResponses ==
    {Ok(<<TradeEntry("token-a", "Buy", <<"0", ".", "4", "0">>, <<"1", "0">>),
          TradeEntry("token-b", "Buy", <<"0", ".", "5">>, <<"1", "0">>)>>),
     Ok(<<TradeEntry("token-a", "Buy", <<"0", ".", "6", "0">>, <<"1", "0">>),
          TradeEntry("token-a", "Sell", <<"0", ".", "7", "0">>, <<"1", "5">>)>>)}

\* create_and_sign_order and get_positions calls on one builder and one
\* client, in flight together.
ConcurrentNext ==
    \/ \E neg_risk \in BOOLEAN, params \in ConcurrentParams :
         \E now_nonce \in LaterReadings(clock) :
            create_and_sign_order("key-a", neg_risk, params, now_nonce)
    \/ \E response \in ConcurrentResponses : get_positions(TRUE, TRUE, response)
    \/ \E ok \in BOOLEAN : SignDone(ok)
    \/ FoldNext
    \/ \E asset_id \in pending : EmitNext(asset_id)
    \/ \E mid \in {Ok(<<"0", ".", "5", "5">>), Err("NetworkError")} : MidpointDone(mid)
    \/ Return
    \/ Tick
    \/ Park
    \/ \E i \in 1..Len(parked) : Resume(i)

ConcurrentSpec == Init /\ [][ConcurrentNext]_vars

\* Calls that hash and sign, one after another on the same process, the caller
\* keeping what the previous call gave.
RepeatNext ==
    \/ \E key \in PrivateKeys, neg_risk \in BOOLEAN, params \in RepeatParams :
         \E now_nonce \in LaterReadings(clock) :
            create_and_sign_order(key, neg_risk, params, now_nonce)
    \/ \E key \in PrivateKeys, process_id \in ProcessIds :
         \E now_nonce \in LaterReadings(clock) :
            create_api_key(key, now_nonce, process_id)
    \/ \E ok \in BOOLEAN : SignDone(ok)
    \/ \E outcome \in {"Ok", "NetworkError", "ApiError"} : PostDone(outcome)
    \/ ReturnKeeping
    \/ Tick

RepeatSpec == Init /\ [][RepeatNext]_vars

(***************************************************************************)
(* Exact arithmetic for the properties below: an integer is [neg, mag]     *)
(* with mag an arbitrary precision natural, a rational is [num, den] with  *)
(* den > 0.  None of it is used by the actions.                            *)
(***************************************************************************)
ZInt(neg, mag) == [neg |-> neg /\ mag # <<>>, mag |-> mag]

ZNat(n) == ZInt(FALSE, BFromInt(n))

ZNeg(a) == ZInt(~a.neg, a.mag)

ZAbs(a) == ZInt(FALSE, a.mag)

ZAdd(a, b) ==
    IF a.neg = b.neg THEN ZInt(a.neg, BAdd(a.mag, b.mag))
    ELSE IF BCmp(a.mag, b.mag) >= 0 THEN ZInt(a.neg, BSub(a.mag, b.mag))
    ELSE ZInt(b.neg, BSub(b.mag, a.mag))

ZMul(a, b) == ZInt(a.neg # b.neg, BMul(a.mag, b.mag))

Rat(num, den) == [num |-> num, den |-> den]

QInt(n) == Rat(ZNat(n), ZNat(1))

QIsZero(x) == x.num.mag = <<>>

QIsPositive(x) == ~x.num.neg /\ ~QIsZero(x)

QNeg(x) == Rat(ZNeg(x.num), x.den)

QAdd(x, y) ==
    IF QIsZero(x) THEN y
    ELSE IF QIsZero(y) THEN x
    ELSE Rat(ZAdd(ZMul(x.num, y.den), ZMul(y.num, x.den)), ZMul(x.den, y.den))

QSub(x, y) == QAdd(x, QNeg(y))

QMul(x, y) ==
    IF QIsZero(x) \/ QIsZero(y) THEN QInt(0)
    ELSE Rat(ZMul(x.num, y.num), ZMul(x.den, y.den))

\* x / y for y # 0.
QDiv(x, y) ==
    IF QIsZero(x) THEN QInt(0)
    ELSE Rat(ZMul(ZMul(x.num, y.den), ZInt(y.num.neg, BFromInt(1))),
             ZMul(x.den, ZAbs(y.num)))

QAbs(x) == Rat(ZAbs(x.num), x.den)

QLe(x, y) == ~QSub(y, x).num.neg

QLt(x, y) == ~QLe(y, x)

QEq(x, y) == QLe(x, y) /\ QLe(y, x)

\* 10^(-k)
QUnit(k) == Rat(ZNat(1), ZInt(FALSE, BMulPow10(BFromInt(1), k)))

\* Whether str is a literal [+-]digits[.digits] with at least one digit.
IsDecimalLiteral(str) ==
    LET body == IF str # <<>> /\ str[1] \in {"+", "-"} THEN Tail(str) ELSE str
    IN  /\ \E i \in 1..Len(body) : IsDigit(body[i])
        /\ \A i \in 1..Len(body) : IsDigit(body[i]) \/ body[i] = "."
        /\ \A i, j \in 1..Len(body) : body[i] = "." /\ body[j] = "." => i = j

\* The number a decimal literal denotes; 0 for every other string.
QOfString(str) ==
    IF ~IsDecimalLiteral(str) THEN QInt(0)
    ELSE LET body  == IF str[1] \in {"+", "-"} THEN Tail(str) ELSE str
             after == {i \in 1..Len(body) : \E j \in 1..(i - 1) : body[j] = "."}
         IN  Rat(ZInt(str[1] = "-", BFromDigits(SelectSeq(body, IsDigit))),
                 QUnit(Cardinality(after)).den)

\* The number a Decimal denotes.
QOfDecimal(d) == Rat(ZInt(d.neg, d.mant), QUnit(d.scale).den)

\* |x - y| <= 10^(-digits) / 2: x is y rounded to `digits` fraction digits.
Rounds(x, y, digits) ==
    \E exact \in {y} :
        QLe(QAbs(QSub(x, exact)), QMul(QUnit(digits), Rat(ZNat(1), ZNat(2))))

\* The natural number nearest to x >= 0, halves away from zero (f64::round).
QRound(x) ==
    BDivMod(BAdd(BMulLimb(x.num.mag, 2, 0), x.den.mag), BMulLimb(x.den.mag, 2, 0))[1]

(***************************************************************************)
(* Order amounts and validation                                            *)
(***************************************************************************)
\* price in (0, 1] and size > 0, on the exact decimal values.
ParamsValid(params) ==
    /\ QLt(QInt(0), QOfDecimal(params.price))
    /\ QLe(QOfDecimal(params.price), QInt(1))
    /\ QLt(QInt(0), QOfDecimal(params.size))

\* C1: create_and_sign_order rejects a price outside (0, 1] or a size that
\* is not > 0 with InvalidOrder before anything is hashed or signed: for
\* such params no digest is computed, nothing is handed to the signer and
\* the call returns Err(InvalidOrder).  (Stated for requests whose token id
\* parses, so that no other rejection is in play.)
InvalidParamsRejectedBeforeCrypto ==
    (/\ call.fn = "create_and_sign_order"
     /\ \A i \in 1..Len(call.params.token_id) : IsDigit(call.params.token_id[i])
     /\ ~ParamsValid(call.params)) =>
        /\ digests = <<>>
        /\ sign_requests = <<>>
        /\ order_data = None
        /\ pc = "done" => result = Some(Err("InvalidOrder"))

\* round(price * size * 10^6) and round(size * 10^6) on the exact values.
ExactCollateral(params) ==
    QRound(QMul(QMul(QOfDecimal(params.price), QOfDecimal(params.size)), QInt(10^6)))

ExactTokens(params) == QRound(QMul(QOfDecimal(params.size), QInt(10^6)))

\* C2: for valid price and size a BUY order has makerAmount =
\* round(price * size * 10^6) and takerAmount = round(size * 10^6), a SELL
\* order has the two swapped, and the returned payload carries these
\* integers in decimal.
AmountsAreRoundedProducts ==
    (order_data # None /\ ParamsValid(call.params)) =>
        LET maker == IF call.params.side = "Buy" THEN ExactCollateral(call.params)
                     ELSE ExactTokens(call.params)
            taker == IF call.params.side = "Buy" THEN ExactTokens(call.params)
                     ELSE ExactCollateral(call.params)
        IN  /\ order_data[1].maker_amount = maker
            /\ order_data[1].taker_amount = taker
            /\ (call.fn = "create_and_sign_order" /\ pc = "done"
                    /\ result[1].tag = "Ok") =>
                   /\ result[1].value.maker_amount = U256ToString(maker)
                   /\ result[1].value.taker_amount = U256ToString(taker)

(***************************************************************************)
(* EIP-712 preimages                                                       *)
(***************************************************************************)
\* The byte string whose hash the struct hash inside `digest` is:
\* digest = keccak256(0x19 0x01 || domain separator || struct hash).
StructPreimage(digest) == digest[2][4][2][2]

\* The k-th 32-byte word of the expanded byte string `bytes`.
Word(bytes, k) == SubSeq(bytes, 32 * (k - 1) + 1, 32 * k)

\* The natural number a string of plain bytes denotes, most significant first.
RECURSIVE BeValue(_)
BeValue(word) ==
    LET Halves(low) ==
            BAdd(BShl(BeValue(SubSeq(word, 1, Len(word) - low)), 8 * low),
                 BeValue(SubSeq(word, Len(word) - low + 1, Len(word))))
    IN  IF word = <<>> THEN <<>>
        ELSE IF Len(word) = 1 THEN BFromInt(word[1][2])
        ELSE Halves(Len(word) \div 2)

IsPlain(word) == \A i \in 1..Len(word) : word[i][1] = "b" /\ word[i][2] \in 0..255

\* word is the big-endian 32-byte encoding of the natural number n.
IsUintWord(word, n) == Len(word) = 32 /\ IsPlain(word) /\ BeValue(word) = n

\* word is 12 zero bytes followed by the 20 bytes of `address`.
IsAddressWord(word, address) ==
    /\ Len(word) = 32 /\ IsPlain(word)
    /\ \A i \in 1..12 : word[i][2] = 0
    /\ \A i \in 1..20 : word[12 + i][2] = address[i]

\* word is 31 zero bytes followed by the byte v.
IsUint8Word(word, v) ==
    /\ Len(word) = 32 /\ IsPlain(word)
    /\ \A i \in 1..31 : word[i][2] = 0
    /\ word[32][2] = v

\* word is the 32 bytes of the hash value h.
IsHashWord(word, h) ==
    Len(word) = 32 /\ \A i \in 1..32 : word[i] = <<"hb", h, i>>

OrderPreimageWellFormed(bytes, order) ==
    /\ Len(bytes) = 13 * 32
    /\ IsHashWord(Word(bytes, 1), order_type_hash)
    /\ IsUintWord(Word(bytes, 2), order.salt)
    /\ IsAddressWord(Word(bytes, 3), order.maker)
    /\ IsAddressWord(Word(bytes, 4), order.signer)
    /\ IsAddressWord(Word(bytes, 5), order.taker)
    /\ IsUintWord(Word(bytes, 6), order.token_id)
    /\ IsUintWord(Word(bytes, 7), order.maker_amount)
    /\ IsUintWord(Word(bytes, 8), order.taker_amount)
    /\ IsUintWord(Word(bytes, 9), order.expiration)
    /\ IsUintWord(Word(bytes, 10), order.nonce)
    /\ IsUintWord(Word(bytes, 11), order.fee_rate_bps)
    /\ IsUint8Word(Word(bytes, 12), order.side)
    /\ IsUint8Word(Word(bytes, 13), order.signature_type)

ClobAuthPreimageWellFormed(bytes, auth) ==
    /\ Len(bytes) = 4 * 32
    /\ IsHashWord(Word(bytes, 1), clob_auth_type_hash)
    /\ IsAddressWord(Word(bytes, 2), auth.address)
    /\ IsUintWord(Word(bytes, 3), auth.timestamp)
    /\ IsUintWord(Word(bytes, 4), auth.nonce)

\* C10: the Order struct-hash preimage is the type hash followed by the 12
\* fields in declared order, one 32-byte word each (13 words, 416 bytes):
\* integers big-endian, addresses after 12 zero bytes, side and
\* signatureType in the last byte after 31 zero bytes; the ClobAuth preimage
\* is type hash, padded address, timestamp word, nonce word (128 bytes).
PreimagesAreWordEncoded ==
    /\ order_data # None =>
           /\ ByteLen(StructPreimage(digests[Len(digests)])) = 416
           /\ OrderPreimageWellFormed(
                  ExpandBytes(StructPreimage(digests[Len(digests)])), order_data[1])
    /\ clob_auth # None =>
           /\ ByteLen(StructPreimage(digests[Len(digests)])) = 128
           /\ ClobAuthPreimageWellFormed(
                  ExpandBytes(StructPreimage(digests[Len(digests)])), clob_auth[1])

\* A SELL order with a fee and an explicit nonce has been hashed.
SellOrderHashed ==
    /\ pc = "sign"
    /\ order_data # None
    /\ order_data[1].side = 1
    /\ order_data[1].fee_rate_bps = BFromInt(30)
    /\ order_data[1].nonce = BFromInt(7)
    /\ order_data[1].maker_amount = BFromInt(2500000)
    /\ Len(digests) = 1

(***************************************************************************)
(* Positions: the exact sums of a trade list                               *)
(***************************************************************************)
\* The sum over the trades of `list` on `token` and `side` of the size, or of
\* price * size when `priced`; an unparsable field counts as 0.
RECURSIVE ExactTotal(_, _, _, _)
ExactTotal(list, token, side, priced) ==
    IF list = <<>> THEN QInt(0)
    ELSE IF Head(list).token_id = token /\ Head(list).side = side
    THEN QAdd(ExactTotal(Tail(list), token, side, priced),
              IF priced
              THEN QMul(QOfString(Head(list).price), QOfString(Head(list).size))
              ELSE QOfString(Head(list).size))
    ELSE ExactTotal(Tail(list), token, side, priced)

ExactNet(list, token) ==
    QSub(ExactTotal(list, token, "Buy", FALSE), ExactTotal(list, token, "Sell", FALSE))

ExactAverage(list, token) ==
    IF QIsPositive(ExactTotal(list, token, "Buy", FALSE))
    THEN QDiv(ExactTotal(list, token, "Buy", TRUE), ExactTotal(list, token, "Buy", FALSE))
    ELSE QInt(0)

ExactRealized(list, token) ==
    QSub(ExactTotal(list, token, "Sell", TRUE),
         QMul(ExactTotal(list, token, "Sell", FALSE), ExactAverage(list, token)))

InGetPositions == call.fn = "get_positions"

ReturnedOk == pc = "done" /\ result # None /\ result[1].tag = "Ok"

\* The indices of the midpoint calls made for `token`.
Lookups(token) == {k \in 1..Len(midpoint_log) : midpoint_log[k].token_id = token}

\* C3: every emitted Position has netSize = bought - sold, averagePrice =
\* cost / bought when bought > 0 and 0 otherwise, and realizedPnl =
\* proceeds - sold * averagePrice, each printed rounded to its 6 or 4
\* fraction digits; there is one accumulator per instrument seen and at
\* most one Position per instrument.
PositionsMatchExactSums ==
    InGetPositions =>
        /\ \A i \in 1..Len(positions) :
             /\ Rounds(QOfString(positions[i].size),
                       ExactNet(trades, positions[i].asset_id), 6)
             /\ Rounds(QOfString(positions[i].average_price),
                       ExactAverage(trades, positions[i].asset_id), 4)
             /\ Rounds(QOfString(positions[i].realized_pnl),
                       ExactRealized(trades, positions[i].asset_id), 4)
        /\ \A i, j \in 1..Len(positions) :
             positions[i].asset_id = positions[j].asset_id => i = j
        /\ DOMAIN position_map = {trades[k].token_id : k \in 1..folded}
        /\ \A token \in DOMAIN position_map : position_map[token].asset_id = token

\* [buy 10@0.40, buy 10@0.60, sell 15@0.70] has been reconciled.
ExampleReconciled ==
    /\ ReturnedOk
    /\ trades = <<TradeEntry("token-a", "Buy",  <<"0", ".", "4", "0">>, <<"1", "0">>),
                  TradeEntry("token-a", "Buy",  <<"0", ".", "6", "0">>, <<"1", "0">>),
                  TradeEntry("token-a", "Sell", <<"0", ".", "7", "0">>, <<"1", "5">>)>>
    /\ Len(positions) = 1
    /\ positions[1].asset_id = "token-a"
    /\ positions[1].size = <<"5", ".", "0", "0", "0", "0", "0", "0">>
    /\ positions[1].average_price = <<"0", ".", "5", "0", "0", "0">>
    /\ positions[1].realized_pnl = <<"3", ".", "0", "0", "0", "0">>

\* C4 as stated: no emitted Position has |netSize| <= 1e-4, and an
\* instrument whose trades net to 0 produces no Position.
EmittedNetSizeExceedsEpsilon ==
    InGetPositions =>
        /\ \A i \in 1..Len(positions) :
             QLt(QUnit(4), QAbs(QOfString(positions[i].size)))
        /\ \A i \in 1..Len(positions) :
             ~QEq(ExactNet(trades, positions[i].asset_id), QInt(0))

\* C4, amended: every emitted Position has |netSize| >= 1e-4 (a net size of
\* exactly 1e-4 is emitted), and an instrument whose trades net to 0
\* produces no Position.
EmittedNetSizeAtLeastEpsilon ==
    InGetPositions =>
        /\ \A i \in 1..Len(positions) :
             /\ QLe(QUnit(4), QAbs(QOfString(positions[i].size)))
             /\ QLe(QUnit(4), QAbs(ExactNet(trades, positions[i].asset_id)))
        /\ \A i \in 1..Len(positions) :
             ~QEq(ExactNet(trades, positions[i].asset_id), QInt(0))

\* buy 10@0.5 then sell 10@0.6 has been reconciled to no Position.
NetZeroPruned ==
    /\ ReturnedOk
    /\ trades = <<TradeEntry("token-b", "Buy",  <<"0", ".", "5">>, <<"1", "0">>),
                  TradeEntry("token-b", "Sell", <<"0", ".", "6">>, <<"1", "0">>)>>
    /\ result[1].value = <<>>

\* A Position without its market and its unrealized PnL.
Core(position) ==
    [asset_id      |-> position.asset_id,
     size          |-> position.size,
     average_price |-> position.average_price,
     realized_pnl  |-> position.realized_pnl]

ZeroPnl == <<"0", ".", "0", "0", "0", "0">>

LookupFailed(token) ==
    \E k \in Lookups(token) :
        midpoint_log[k].result # None /\ midpoint_log[k].result[1].tag = "Err"

\* The Position of `token` when no lookup is made, from the trade list alone.
ReferencePosition(list, token) ==
    PositionOf(FoldAll(<<>>, list)[token], token, FZero(0))

\* C5: a failed midpoint lookup never aborts get_positions: the call still
\* returns Ok, the failing instrument is emitted with unrealizedPnl 0 and its
\* realizedPnl, and every instrument with |netSize| above epsilon is emitted
\* with the netSize, averagePrice and realizedPnl its trades alone determine.
MidpointFailureNeverAborts ==
    InGetPositions =>
        /\ (pc = "done" /\ midpoint_log # <<>>) => result = Some(Ok(positions))
        /\ \A i \in 1..Len(positions) :
             /\ Core(positions[i]) =
                    Core(ReferencePosition(trades, positions[i].asset_id))
             /\ LookupFailed(positions[i].asset_id) =>
                    /\ positions[i].unrealized_pnl = ZeroPnl
                    /\ Rounds(QOfString(positions[i].realized_pnl),
                              ExactRealized(trades, positions[i].asset_id), 4)
        /\ ReturnedOk =>
             \A k \in 1..Len(trades) :
                 QLt(QUnit(4), QAbs(ExactNet(trades, trades[k].token_id))) =>
                     \E i \in 1..Len(positions) :
                         positions[i].asset_id = trades[k].token_id

\* Two instruments were emitted, the lookup failed for one and succeeded for
\* the other.
OneLookupFailedOneSucceeded ==
    /\ ReturnedOk
    /\ Len(positions) = 2
    /\ Len(midpoint_log) = 2
    /\ midpoint_log[1].result = Some(Err("NetworkError"))
    /\ midpoint_log[2].result = Some(Ok(<<"0", ".", "5", "5">>))
    /\ positions[1].unrealized_pnl = ZeroPnl
    /\ positions[2].unrealized_pnl # ZeroPnl

\* C6: a midpoint lookup is made only when prices were requested and the
\* net position is long; every other Position has unrealizedPnl 0, a
\* Position whose lookup returned a price has unrealizedPnl =
\* (currentPrice - averagePrice) * netSize, and the number of lookups of a
\* call is the number of emitted long positions when prices were requested
\* and 0 otherwise.
LookupsOnlyForLongPositions ==
    InGetPositions =>
        /\ \A k \in 1..Len(midpoint_log) :
             /\ call.include_prices
             /\ QLt(QInt(0), ExactNet(trades, midpoint_log[k].token_id))
             /\ Lookups(midpoint_log[k].token_id) = {k}
        /\ \A i \in 1..Len(positions) :
             /\ Lookups(positions[i].asset_id) = {} =>
                    positions[i].unrealized_pnl = ZeroPnl
             /\ (call.include_prices
                    /\ QLt(QInt(0), ExactNet(trades, positions[i].asset_id))) =>
                    Lookups(positions[i].asset_id) # {}
             /\ \A k \in Lookups(positions[i].asset_id) :
                    midpoint_log[k].result[1].tag = "Ok" =>
                        Rounds(QOfString(positions[i].unrealized_pnl),
                               QMul(QSub(QOfString(midpoint_log[k].result[1].value),
                                         ExactAverage(trades, positions[i].asset_id)),
                                    ExactNet(trades, positions[i].asset_id)),
                               4)
        /\ ReturnedOk =>
             Len(midpoint_log) =
                 IF call.include_prices
                 THEN Cardinality({i \in 1..Len(positions) :
                          QLt(QInt(0), ExactNet(trades, positions[i].asset_id))})
                 ELSE 0
        /\ Len(midpoint_log) =
               Cardinality({r \in 1..Len(http_requests) :
                               http_requests[r].to = "/midpoint"})

\* A long and a short position were emitted with prices requested: one
\* lookup, for the long one.
LongLookedUpShortNot ==
    /\ ReturnedOk
    /\ call.include_prices
    /\ Len(positions) = 2
    /\ Len(midpoint_log) = 1
    /\ midpoint_log[1].token_id = "token-b"
    /\ midpoint_log[1].result = Some(Ok(<<"0", ".", "5", "5">>))
    /\ \E i \in 1..2 :
         /\ positions[i].asset_id = "token-a"
         /\ positions[i].size = <<"-", "1", "5", ".", "0", "0", "0", "0", "0", "0">>
    /\ \E i \in 1..2 :
         /\ positions[i].asset_id = "token-b"
         /\ positions[i].unrealized_pnl = <<"0", ".", "5", "0", "0", "0">>

\* The trade list with every unparsable price or size replaced by "0".
Sanitized(list) ==
    [k \in 1..Len(list) |->
        [list[k] EXCEPT
            !.price = IF IsDecimalLiteral(@) THEN @ ELSE <<"0">>,
            !.size  = IF IsDecimalLiteral(@) THEN @ ELSE <<"0">>]]

\* C7: a trade with an unparsable price or size never makes get_positions
\* fail; the unparsable field counts as 0 for that field only and every
\* trade is accumulated as if the bad fields were 0.
UnparsableFieldsCountAsZero ==
    InGetPositions =>
        /\ position_map = FoldAll(<<>>, Sanitized(SubSeq(trades, 1, folded)))
        /\ (pc = "done" /\ trades # <<>>) => result = Some(Ok(positions))

\* A list with an unparsable price, an unparsable size and a good trade was
\* reconciled: the good trade and the size of the priceless one are counted.
BadRecordsReconciled ==
    /\ ReturnedOk
    /\ trades = <<TradeEntry("token-a", "Buy",  <<"a", "b", "c">>, <<"3">>),
                  TradeEntry("token-a", "Sell", <<"0", ".", "5">>, <<"x">>),
                  TradeEntry("token-a", "Buy",  <<"0", ".", "4", "0">>, <<"1", "0">>)>>
    /\ Len(positions) = 1
    /\ positions[1].size = <<"1", "3", ".", "0", "0", "0", "0", "0", "0">>
    /\ positions[1].average_price = <<"0", ".", "3", "0", "7", "7">>

NonNegative(x) == FLe(FZero(0), x)

\* C8: during the fold the four totals of every accumulator are never
\* negative and never decrease from one folded trade to the next; a buy
\* changes only totalBought and totalCost, a sell only totalSold and
\* totalProceeds, and the accumulators of other instruments are unchanged.
TotalsNonNegativeAndMonotone ==
    (InGetPositions /\ folded >= 1) =>
        LET before == FoldAll(<<>>, SubSeq(trades, 1, folded - 1))
            trade  == trades[folded]
        IN  \A token \in DOMAIN position_map :
                LET now == position_map[token]
                    was == IF token \in DOMAIN before THEN before[token]
                           ELSE NewAccumulator(trade)
                IN  /\ NonNegative(now.total_bought) /\ NonNegative(now.total_sold)
                    /\ NonNegative(now.total_cost) /\ NonNegative(now.total_proceeds)
                    /\ FLe(was.total_bought, now.total_bought)
                    /\ FLe(was.total_sold, now.total_sold)
                    /\ FLe(was.total_cost, now.total_cost)
                    /\ FLe(was.total_proceeds, now.total_proceeds)
                    /\ token # trade.token_id => now = was
                    /\ trade.side = "Buy" =>
                           /\ now.total_sold = was.total_sold
                           /\ now.total_proceeds = was.total_proceeds
                    /\ trade.side = "Sell" =>
                           /\ now.total_bought = was.total_bought
                           /\ now.total_cost = was.total_cost

OrderingsOf(list) ==
    {[k \in 1..Len(list) |-> list[f[k]]] :
        f \in {g \in [1..Len(list) -> 1..Len(list)] :
                  \A a, b \in 1..Len(list) : g[a] = g[b] => a = b}}

\* What get_positions emits for `map`, lookups aside.
EmittedOf(map) ==
    {Core(PositionOf(map[token], token, FZero(0))) :
        token \in {t \in DOMAIN map : ~Skipped(net_size(map[t]))}}

\* C9: every permutation of the trade list yields the same set of emitted
\* Positions (instrument, netSize, averagePrice, realizedPnl), and so does
\* reconciling the same list again.
ReconciliationIsOrderIndependent ==
    (InGetPositions /\ ReturnedOk) =>
        \A list \in OrderingsOf(trades) :
            EmittedOf(FoldAll(<<>>, list)) = {Core(positions[i]) : i \in 1..Len(positions)}

(***************************************************************************)
(* Orders and API keys: what is hashed, signed and sent                    *)
(***************************************************************************)
\* The address in the last 20 bytes of a word.
AddressIn(word) == [i \in 1..20 |-> word[12 + i][2]]

\* The OrderData read back from the 13 words of a struct-hash preimage.
DecodeOrder(bytes) ==
    [salt           |-> BeValue(Word(bytes, 2)),
     maker          |-> AddressIn(Word(bytes, 3)),
     signer         |-> AddressIn(Word(bytes, 4)),
     taker          |-> AddressIn(Word(bytes, 5)),
     token_id       |-> BeValue(Word(bytes, 6)),
     maker_amount   |-> BeValue(Word(bytes, 7)),
     taker_amount   |-> BeValue(Word(bytes, 8)),
     expiration     |-> BeValue(Word(bytes, 9)),
     nonce          |-> BeValue(Word(bytes, 10)),
     fee_rate_bps   |-> BeValue(Word(bytes, 11)),
     side           |-> Word(bytes, 12)[32][2],
     signature_type |-> Word(bytes, 13)[32][2]]

\* Another 256-bit integer, another address, another byte.
OtherUint(n) == IF BBit(n, 255) = 1 THEN BSub(n, BShl(BFromInt(1), 255))
                ELSE BAdd(n, BShl(BFromInt(1), 255))

OtherAddress(address) == [address EXCEPT ![1] = (@ + 1) % 256]

OtherByte(v) == (v + 128) % 256

\* The orders that differ from `order` in exactly one field.
SingleFieldVariants(order) ==
    {[order EXCEPT !.salt = BAdd(@, BFromInt(1))],
     [order EXCEPT !.salt = OtherUint(@)],
     [order EXCEPT !.maker = OtherAddress(@)],
     [order EXCEPT !.signer = OtherAddress(@)],
     [order EXCEPT !.taker = order.maker],
     [order EXCEPT !.token_id = OtherUint(@)],
     [order EXCEPT !.maker_amount = order.taker_amount],
     [order EXCEPT !.maker_amount = OtherUint(@)],
     [order EXCEPT !.taker_amount = order.maker_amount],
     [order EXCEPT !.taker_amount = OtherUint(@)],
     [order EXCEPT !.expiration = BAdd(@, BFromInt(256))],
     [order EXCEPT !.nonce = OtherUint(@)],
     [order EXCEPT !.fee_rate_bps = BAdd(@, BFromInt(1))],
     [order EXCEPT !.side = 1 - @],
     [order EXCEPT !.side = OtherByte(@)],
     [order EXCEPT !.signature_type = 1],
     [order EXCEPT !.signature_type = OtherByte(@)]} \ {order}

\* C11: the struct-hash preimage determines the order (the twelve fields are
\* read back from it unchanged), and an order that differs from the hashed
\* one in a single field has another preimage and another struct hash.
SingleFieldChangesPreimage ==
    (call.fn = "create_and_sign_order" /\ pc = "sign") =>
        LET Against(order, base) ==
                /\ base = StructPreimage(digests[Len(digests)])
                /\ DecodeOrder(ExpandBytes(base)) = order
                /\ \A other \in SingleFieldVariants(order) :
                       /\ struct_hash_data(other) # base
                       /\ struct_hash(other) # Keccak256(base)
        IN  Against(order_data[1], struct_hash_data(order_data[1]))

\* A SELL order whose amounts differ, with a fee, is hashed: seventeen orders
\* that differ from it in one field are compared.
VariantsOfSellOrderCompared ==
    /\ call.fn = "create_and_sign_order"
    /\ pc = "sign"
    /\ order_data[1].side = 1
    /\ order_data[1].maker_amount # order_data[1].taker_amount
    /\ order_data[1].fee_rate_bps = BFromInt(30)
    /\ Cardinality(SingleFieldVariants(order_data[1])) = 17

\* The domain separator and the struct hash of the message of the call in
\* flight, each put together from its parts.
DomainSeparatorOfCall ==
    IF call.fn = "create_api_key" THEN Keccak256(clob_domain_separator_data)
    ELSE Keccak256(domain_separator_data(call.neg_risk))

StructHashOfCall ==
    IF call.fn = "create_api_key"
    THEN Keccak256(clob_struct_hash_data(clob_auth[1].address, clob_auth[1].timestamp,
                                         clob_auth[1].nonce))
    ELSE Keccak256(struct_hash_data(order_data[1]))

\* value = keccak256(0x19 || 0x01 || domain separator || struct hash), a hash of
\* 66 bytes.
IsTypedDataDigest(value, separator, hash) ==
    /\ value[1] = "keccak256"
    /\ value[2] = <<Byte(25), Byte(1), <<"h", separator>>, <<"h", hash>>>>
    /\ ByteLen(value[2]) = 66

\* The signatures found in what the call has sent or returned.
SignaturesGivenOut ==
    {http_requests[i].body.signature : i \in 1..Len(http_requests)}
        \cup (IF call.fn = "create_and_sign_order" /\ pc = "done" /\ result[1].tag = "Ok"
              THEN {result[1].value.signature} ELSE {})

\* C12: whatever is handed to the signer, for an order or for an API key, is
\* keccak256(0x19 || 0x01 || domainSeparator || structHash) of the message of
\* the call, a hash of 66 bytes, under the key of the call; and every
\* signature sent or returned is the signature of that value.
OnlyTypedDataDigestIsSigned ==
    (call.fn \in {"create_and_sign_order", "place_order", "create_api_key"}) =>
        /\ \A i \in 1..Len(sign_requests) :
               /\ sign_requests[i].key = call.key
               /\ IsTypedDataDigest(sign_requests[i].digest, DomainSeparatorOfCall,
                                     StructHashOfCall)
        /\ \A signature \in SignaturesGivenOut :
               /\ sign_requests # <<>>
               /\ signature = HexString(Signature(call.key, sign_requests[1].digest))

\* An API-key request signed over the ClobAuth digest has been sent.
ApiKeyDigestSigned ==
    /\ call.fn = "create_api_key"
    /\ pc = "post"
    /\ Len(sign_requests) = 1
    /\ Len(http_requests) = 1
    /\ ByteLen(sign_requests[1].digest[2]) = 66
    /\ StructPreimage(sign_requests[1].digest)
           = clob_struct_hash_data(clob_auth[1].address, clob_auth[1].timestamp,
                                   clob_auth[1].nonce)

(***************************************************************************)
(* Two calls, one after the other                                          *)
(***************************************************************************)
\* The previous call and the call in flight have both hashed a message, under
\* the same domain and field for field the same.
SameMessageAgain ==
    /\ kept # None
    /\ digests # <<>>
    /\ kept[1].digests # <<>>
    /\ kept[1].order_data = order_data
    /\ kept[1].clob_auth = clob_auth
    /\ order_data # None => kept[1].call.neg_risk = call.neg_risk

RecoveredAddress(signature, digest) ==
    IF signature[2][1][3] = digest THEN Some(SignerAddress(signature[2][1][2]))
    ELSE None

\* C14: two consecutive calls of create_and_sign_order on the same builder
\* with the same params, no nonce given, use different salts, get different
\* digests and return different signatures, and both signed orders name the
\* same maker, the address their signatures recover to.
IdenticalCallsUseDifferentSalts ==
    (/\ kept # None
     /\ call.fn = "create_and_sign_order"
     /\ kept[1].call = call
     /\ call.params.nonce = None
     /\ order_data # None) =>
        /\ order_data[1].salt # kept[1].order_data[1].salt
        /\ digests # kept[1].digests
        /\ (pc = "done" /\ result[1].tag = "Ok" /\ kept[1].result.tag = "Ok") =>
               /\ result[1].value.signature # kept[1].result.value.signature
               /\ result[1].value.maker = kept[1].result.value.maker
               /\ RecoveredAddress(result[1].value.signature, digests[1])
                      = Some(order_data[1].maker)
               /\ RecoveredAddress(kept[1].result.value.signature, kept[1].digests[1])
                      = Some(order_data[1].maker)

(***************************************************************************)
(* The signed order                                                        *)
(***************************************************************************)
\* The SignedOrder payloads the call in flight has sent or returned.
SignedOrdersGivenOut ==
    IF call.fn = "place_order"
    THEN {http_requests[i].body : i \in 1..Len(http_requests)}
    ELSE IF call.fn = "create_and_sign_order" /\ pc = "done" /\ result[1].tag = "Ok"
    THEN {result[1].value}
    ELSE {}

\* C15: the hashed OrderData has maker = signer = the address of the call's
\* key, taker = the zero address, signatureType 0 and side 0 for a BUY, 1 for
\* a SELL, and so has every SignedOrder sent or returned.
SignedOrderPartiesAreFixed ==
    (call.fn \in {"create_and_sign_order", "place_order"}) =>
        /\ order_data # None =>
               /\ order_data[1].maker = SignerAddress(call.key)
               /\ order_data[1].signer = order_data[1].maker
               /\ order_data[1].taker = [i \in 1..20 |-> 0]
               /\ order_data[1].signature_type = 0
               /\ order_data[1].side = (IF call.params.side = "Buy" THEN 0 ELSE 1)
        /\ \A signed \in SignedOrdersGivenOut :
               /\ signed.maker = HexString(SignerAddress(call.key))
               /\ signed.signer = signed.maker
               /\ signed.taker = HexString([i \in 1..20 |-> 0])
               /\ signed.signature_type = 0
               /\ signed.side = (IF call.params.side = "Buy" THEN <<"0">> ELSE <<"1">>)

\* place_order has sent a SELL order signed with the second key.
SellOrderOfSecondKeySent ==
    /\ call.fn = "place_order"
    /\ pc = "post"
    /\ call.key = "key-b"
    /\ call.params.side = "Sell"
    /\ Len(http_requests) = 1
    /\ http_requests[1].body.side = <<"1">>
    /\ http_requests[1].body.maker = HexString(SignerAddress("key-b"))

\* str is the decimal rendering of the natural number n: digits only, no
\* leading zero, of value n.
IsDecimalOf(str, n) ==
    /\ str # <<>>
    /\ \A i \in 1..Len(str) : IsDigit(str[i])
    /\ Len(str) > 1 => str[1] # "0"
    /\ BFromDigits(str) = n

\* `signed` carries the integers and the side byte of the 13 words `bytes`,
\* and the signature of `digest` under `key` in hex.
CarriesWhatWasHashed(signed, bytes, key, digest) ==
    /\ IsDecimalOf(signed.salt, BeValue(Word(bytes, 2)))
    /\ IsDecimalOf(signed.token_id, BeValue(Word(bytes, 6)))
    /\ IsDecimalOf(signed.maker_amount, BeValue(Word(bytes, 7)))
    /\ IsDecimalOf(signed.taker_amount, BeValue(Word(bytes, 8)))
    /\ IsDecimalOf(signed.expiration, BeValue(Word(bytes, 9)))
    /\ IsDecimalOf(signed.nonce, BeValue(Word(bytes, 10)))
    /\ IsDecimalOf(signed.fee_rate_bps, BeValue(Word(bytes, 11)))
    /\ signed.side \in {<<"0">>, <<"1">>}
    /\ DigitsToInt(signed.side) = Word(bytes, 12)[32][2]
    /\ signed.signature[1] = "0x"
    /\ 2 * ByteLen(signed.signature[2]) = 130
    /\ signed.signature[2] = Signature(key, digest)

\* C16: a SignedOrder sent or returned carries salt, tokenId, makerAmount,
\* takerAmount, expiration, nonce and feeRateBps as the decimal strings of
\* the integers in the struct-hash preimage that was signed, side "0" or "1"
\* as the hashed side byte, an expiration or nonce the caller gave as given,
\* and as signature "0x" and the 130 hex digits of the 65 signature bytes.
PayloadCarriesWhatWasSigned ==
    \A signed \in SignedOrdersGivenOut :
        /\ Len(sign_requests) = 1
        /\ CarriesWhatWasHashed(signed,
                                ExpandBytes(StructPreimage(sign_requests[1].digest)),
                                call.key, sign_requests[1].digest)
        /\ call.params.expiration # None =>
               signed.expiration = IntToStr(call.params.expiration[1])
        /\ call.params.nonce # None =>
               signed.nonce = IntToStr(call.params.nonce[1])

\* create_and_sign_order has returned a BUY order with the caller's
\* expiration and nonce.
BuyOrderWithGivenNonceReturned ==
    /\ call.fn = "create_and_sign_order"
    /\ pc = "done"
    /\ result[1].tag = "Ok"
    /\ call.params.side = "Buy"
    /\ result[1].value.maker_amount = <<"4", "5", "0", "0", "0", "0", "0", "0">>
    /\ result[1].value.taker_amount = <<"1", "0", "0", "0", "0", "0", "0", "0", "0">>
    /\ result[1].value.expiration = <<"1", "8", "0", "0", "0", "0", "0", "0", "0", "0">>
    /\ result[1].value.nonce = <<"7">>
    /\ result[1].value.fee_rate_bps = <<"3", "0">>
    /\ result[1].value.side = <<"0">>

(***************************************************************************)
(* The signing domains                                                     *)
(***************************************************************************)
\* The byte string whose hash the domain separator inside `digest` is.
DomainPreimage(digest) == digest[2][3][2][2]

\* The last 20 bytes of a domain-separator preimage are those of `address`;
\* before them come four 32-byte words.
VerifyingContractIs(data, address) ==
    /\ ByteLen(data) = 4 * 32 + 20
    /\ SubSeq(data, Len(data) - 19, Len(data)) = [i \in 1..20 |-> <<"b", address[i]>>]

\* C17: an order is signed under the domain whose verifying contract is the
\* negative-risk exchange when the builder's neg_risk flag is set and the
\* standard exchange when it is not; under the other flag value the same
\* OrderData has another domain separator and another digest; an API key is
\* signed under the domain whose verifying contract is the zero address.
VerifyingContractFollowsFlag ==
    digests # <<>> =>
        /\ order_data # None =>
               /\ VerifyingContractIs(
                      DomainPreimage(digests[1]),
                      IF call.neg_risk THEN NEG_RISK_CTF_EXCHANGE_ADDRESS
                      ELSE CTF_EXCHANGE_ADDRESS)
               /\ domain_separator(~call.neg_risk) # digests[1][2][3][2]
               /\ eip712_hash(~call.neg_risk, order_data[1]) # digests[1]
        /\ clob_auth # None =>
               VerifyingContractIs(DomainPreimage(digests[1]), [i \in 1..20 |-> 0])

\* An order is hashed by a builder for a negative-risk market.
NegRiskOrderHashed ==
    /\ call.fn = "create_and_sign_order"
    /\ pc = "sign"
    /\ call.neg_risk
    /\ VerifyingContractIs(DomainPreimage(digests[1]), NEG_RISK_CTF_EXCHANGE_ADDRESS)
    /\ NEG_RISK_CTF_EXCHANGE_ADDRESS # CTF_EXCHANGE_ADDRESS

(***************************************************************************)
(* Credentials, and one attempt per call                                   *)
(***************************************************************************)
\* C18: an operation that needs an authenticated client, called on a client
\* without credentials, returns AuthError at once: nothing has been hashed,
\* nothing handed to the signer and no request sent.
AuthErrorBeforeAnyWork ==
    (call.fn \in {"place_order", "get_positions"} /\ ~call.has_credentials) =>
        /\ pc = "done"
        /\ result = Some(Err("AuthError"))
        /\ order_data = None
        /\ digests = <<>>
        /\ sign_requests = <<>>
        /\ http_requests = <<>>

\* A step of a call that is waiting for the signer or for the response to its
\* request.
SingleAttemptStep ==
    /\ Len(digests') <= 1
    /\ Len(sign_requests') <= 1
    /\ Len(http_requests') <= 1
    /\ pc = "sign" =>
           /\ pc' \in {"post", "done"}
           /\ <<call', order_data', clob_auth', digests', sign_requests'>>
                  = <<call, order_data, clob_auth, digests, sign_requests>>
           /\ pc' = "post" =>
                  /\ call.fn \in {"place_order", "create_api_key"}
                  /\ http_requests = <<>> /\ Len(http_requests') = 1
                  /\ result' = None
           /\ pc' = "done" =>
                  /\ http_requests' = <<>>
                  /\ call.fn # "create_and_sign_order" => result' = Some(Err("ApiError"))
                  /\ result'[1].tag \in {"Ok", "Err"}
    /\ pc = "post" =>
           /\ pc' = "done"
           /\ <<call', order_data', clob_auth', digests', sign_requests', http_requests'>>
                  = <<call, order_data, clob_auth, digests, sign_requests, http_requests>>
           /\ result'[1] \in {Ok("OrderResponse"), Ok("ApiKeyCreds"),
                               Err("NetworkError"), Err("ApiError")}

CarriesSignedTriple(body, bytes, key, digest) ==
    /\ DOMAIN body = {"address", "timestamp", "nonce", "signature"}
    /\ body.address = HexString(AddressIn(Word(bytes, 2)))
    /\ IsDecimalOf(body.timestamp, BeValue(Word(bytes, 3)))
    /\ IsDecimalOf(body.nonce, BeValue(Word(bytes, 4)))
    /\ body.signature = HexString(Signature(key, digest))

\* C20: the request of create_api_key carries address, timestamp, nonce and
\* signature: the address of the signer, the clock's seconds, a nonce that
\* is the timestamp XOR a 64-bit value drawn from the clock and the process
\* id, all three as in the ClobAuth message whose digest was signed, the two
\* integers in decimal.
ApiKeyRequestCarriesSignedTriple ==
    (call.fn = "create_api_key" /\ clob_auth # None) =>
        /\ clob_auth[1].address = SignerAddress(call.key)
        /\ clob_auth[1].timestamp = BFromInt(clock.secs)
        /\ BBitLen(clob_auth[1].nonce) <= 64
        /\ \E process_id \in ProcessIds :
               BXor(clob_auth[1].nonce, clob_auth[1].timestamp)
                   = BXor(BXor(BTrunc(AsNanos(clock), 64),
                               BTrunc(BShl(BFromInt(clock.secs), 32), 64)),
                          BFromInt(process_id))
        /\ StructPreimage(sign_requests[1].digest)
               = clob_struct_hash_data(clob_auth[1].address, clob_auth[1].timestamp,
                                       clob_auth[1].nonce)
        /\ \A i \in 1..Len(http_requests) :
               /\ http_requests[i].to = "/auth/api-key"
               /\ CarriesSignedTriple(
                      http_requests[i].body,
                      ExpandBytes(StructPreimage(sign_requests[1].digest)),
                      call.key, sign_requests[1].digest)

\* An API key was issued to the second key for a request made in process 4242.
ApiKeyIssued ==
    /\ call.fn = "create_api_key"
    /\ pc = "done"
    /\ result = Some(Ok("ApiKeyCreds"))
    /\ call.key = "key-b"
    /\ Len(http_requests) = 1
    /\ http_requests[1].body.timestamp
           = <<"1", "7", "0", "0", "0", "0", "0", "0", "0", "0">>
    /\ clob_auth[1].nonce = BXor(BFromInt(EpochSecs), random_u64(clock, 4242))

(***************************************************************************)
(* The order in which place_order fails                                    *)
(***************************************************************************)
\* The first of the failure conditions of place_order that the arguments of
\* call `c` meet, on the exact decimal values: "none" when they meet none.
FirstFailure(c) ==
    IF ~ParamsValid(c.params) THEN "InvalidOrder"
    ELSE IF c.key \notin {"key-a", "key-b"} THEN "ConfigError"
    ELSE IF \E i \in 1..Len(c.params.token_id) : ~IsDigit(c.params.token_id[i])
    THEN "InvalidToken"
    ELSE "none"

DomainPreimageIsFiveWords ==
    digests # <<>> =>
        LET data == ExpandBytes(DomainPreimage(digests[1]))
            contract == IF clob_auth # None THEN [i \in 1..20 |-> 0]
                        ELSE IF call.neg_risk THEN NEG_RISK_CTF_EXCHANGE_ADDRESS
                        ELSE CTF_EXCHANGE_ADDRESS
        IN  /\ Len(data) = 5 * 32
            /\ IsAddressWord(Word(data, 5), contract)

(***************************************************************************)
(* Collateral against outcome tokens                                       *)
(***************************************************************************)
\* floor(x) for a non-negative rational x, as a natural number.
QFloor(x) == BDivMod(x.num.mag, x.den.mag)[1]

\* The f64 products the two amounts of `params` are cast from.
CollateralProduct(params) ==
    FMul(FMul(DecimalToF64(params.price), DecimalToF64(params.size)), FFromInt(10^6))

TokensProduct(params) == FMul(DecimalToF64(params.size), FFromInt(10^6))

\* C30: an order built from a price in (0, 1] and a size > 0 has a collateral
\* amount no larger than its outcome-token amount (makerAmount <= takerAmount
\* for a BUY, takerAmount <= makerAmount for a SELL), the two being equal only
\* when the price is 1 or when the integer parts of price * size * 10^6 and
\* size * 10^6 are equal; and each amount is the integer part of its product,
\* which fits 64 bits.
CollateralAtMostTokens ==
    (order_data # None /\ ParamsValid(call.params)) =>
        LET collateral == IF call.params.side = "Buy" THEN order_data[1].maker_amount
                          ELSE order_data[1].taker_amount
            tokens == IF call.params.side = "Buy" THEN order_data[1].taker_amount
                      ELSE order_data[1].maker_amount
            price == QOfDecimal(call.params.price)
            size == QMul(QOfDecimal(call.params.size), QInt(10^6))
        IN  /\ BCmp(collateral, tokens) <= 0
            /\ collateral = tokens =>
                   \/ QEq(price, QInt(1))
                   \/ QFloor(QMul(price, size)) = QFloor(size)
            /\ BBitLen(FFloorMag(CollateralProduct(call.params))) <= 64
            /\ BBitLen(FFloorMag(TokensProduct(call.params))) <= 64
            /\ collateral = FFloorMag(CollateralProduct(call.params))
            /\ tokens = FFloorMag(TokensProduct(call.params))

(***************************************************************************)
(* Clients, credentials and the service                                    *)
(***************************************************************************)
IsDone(fn) == pc = "done" /\ call.fn = fn

\* What the constructors and handle_authentication have returned agrees with
\* the client the caller holds.
CredentialStateReported ==
    /\ (IsDone("new") /\ result[1].tag = "Ok") =>
           /\ client = Some(result[1].value)
           /\ client[1].creds = None
    /\ (IsDone("new_with_creds") /\ result[1].tag = "Ok") =>
           /\ client = Some(result[1].value)
           /\ client[1].creds = Some(call.creds)
    /\ IsDone("handle_authentication") =>
           LET held == client[1].creds # None
           IN  result = Some(Ok(<<TRUE, held, held, held, held>>))
    /\ call.fn = "get_positions" => call.has_credentials = (client[1].creds # None)
    /\ client # None => client[1].address \in {SignerAddress("key-a"), SignerAddress("key-b")}

\* C22: handle_authentication reports has_api_key, has_api_secret and
\* has_api_passphrase equal to whether the client holds credentials,
\* has_private_key true, and is_fully_authenticated exactly when credentials
\* are held; a client from ClobClient::new holds none, one from new_with_creds
\* holds those it was given; and the client the caller holds changes only when
\* a constructor returns another one.
CredentialsFixedAtConstruction ==
    [][/\ CredentialStateReported'
       /\ client' # client =>
              /\ pc = "idle"
              /\ call'.fn \in {"new", "new_with_creds"}
              /\ client' = Some(result'[1].value)]_vars

\* handle_authentication was asked about a client without credentials while
\* a service with an authenticated client was running.
UnauthenticatedClientReported ==
    /\ IsDone("handle_authentication")
    /\ result = Some(Ok(<<TRUE, FALSE, FALSE, FALSE, FALSE>>))
    /\ service # None
    /\ service[1].authenticated_client # None

\* What the service has returned agrees with the service.
ServiceAnswers ==
    /\ IsDone("authenticated_client") =>
           IF service[1].authenticated_client = None
           THEN result = Some(Err("AuthError"))
           ELSE /\ result = Some(Ok(service[1].authenticated_client[1]))
                /\ result[1].value.creds # None
    /\ IsDone("client") =>
           /\ result = Some(Ok(service[1].clob_client))
           /\ result[1].value.creds = None
    /\ IsDone("stop") =>
           /\ result = Some(Ok("()"))
           /\ service[1].authenticated_client = None
    /\ (IsDone("start") /\ result[1].tag = "Ok") =>
           /\ service = Some(result[1].value)
           /\ service[1].authenticated_client = None
    /\ (IsDone("start_with_creds") /\ result[1].tag = "Ok") =>
           /\ service = Some(result[1].value)
           /\ service[1].authenticated_client # None
           /\ service[1].authenticated_client[1].creds = Some(call.creds)

\* C28: authenticated_client() returns Ok exactly while the service holds an
\* authenticated client, which it does from start_with_creds until stop():
\* stop() always succeeds and leaves none, whether or not there was one; no
\* call other than starting another service with credentials brings one
\* back; client() returns the same unauthenticated client throughout.
AuthenticatedUntilStopped ==
    [][/\ ServiceAnswers'
       /\ service' # service =>
              /\ pc = "idle"
              /\ call'.fn \in {"start", "start_with_creds", "stop"}
       /\ (service # None /\ call'.fn = "stop" /\ pc = "idle") =>
              /\ service'[1].clob_client = service[1].clob_client
              /\ service'[1].authenticated_client = None
       /\ (service # None /\ call'.fn \notin {"start", "start_with_creds"}) =>
              /\ service'[1].clob_client = service[1].clob_client
              /\ service[1].authenticated_client = None =>
                     service'[1].authenticated_client = None]_vars

\* The service, started with the second credentials, gave out its
\* authenticated client.
AuthenticatedClientYielded ==
    /\ IsDone("authenticated_client")
    /\ result[1].tag = "Ok"
    /\ result[1].value.creds = Some([key |-> "api-key-2", secret |-> "secret-2",
                                     passphrase |-> "pass-2"])
    /\ service[1].clob_client.creds = None

(***************************************************************************)
(* WebSocket configuration                                                 *)
(***************************************************************************)
ChannelNames == {"book", "price", "trade", "ticker", "user"}

\* C23: setup_websocket returns a ConfigError exactly when the URL is empty,
\* the channel list is empty or a channel is none of book, price, trade,
\* ticker, user, the error being that of the empty URL whenever the URL is
\* empty; a configuration it returns has the URL and the channels it was given
\* and status Disconnected.  handle_realtime_updates returns a ConfigError for
\* an action other than subscribe, unsubscribe, status, and for subscribe
\* without a channel or without an asset id.
RealtimeArgumentsValidated ==
    /\ IsDone("setup_websocket") =>
           LET rejected == \/ call.ws_url = ""
                           \/ call.channels = <<>>
                           \/ \E i \in 1..Len(call.channels) :
                                  call.channels[i] \notin ChannelNames
           IN  /\ rejected <=> result[1].tag = "Err"
               /\ rejected => result[1].kind = "ConfigError"
               /\ call.ws_url = "" =>
                      result[1].message = "WebSocket URL is required"
               /\ ~rejected =>
                      /\ result[1].value.url = call.ws_url
                      /\ result[1].value.url # ""
                      /\ result[1].value.channels = call.channels
                      /\ result[1].value.channels # <<>>
                      /\ \A i \in 1..Len(result[1].value.channels) :
                             result[1].value.channels[i] \in ChannelNames
                      /\ result[1].value.status = "Disconnected"
    /\ IsDone("handle_realtime_updates") =>
           /\ call.action \notin {"subscribe", "unsubscribe", "status"} =>
                  result[1].tag = "Err" /\ result[1].kind = "ConfigError"
           /\ (/\ call.action = "subscribe"
               /\ \/ call.channel = None
                  \/ call.asset_ids = None
                  \/ call.asset_ids = Some(<<>>)) =>
                  result[1].tag = "Err" /\ result[1].kind = "ConfigError"
           /\ (/\ call.action = "subscribe"
               /\ call.channel # None
               /\ call.asset_ids \notin {None, Some(<<>>)}) => result[1].tag = "Ok"
           /\ call.action = "status" => result[1].tag = "Ok"

\* setup_websocket was given an empty URL together with an invalid channel.
EmptyUrlAndInvalidChannel ==
    /\ IsDone("setup_websocket")
    /\ call.ws_url = ""
    /\ call.channels = <<"nope">>
    /\ result[1].tag = "Err"
    /\ result[1].message = "WebSocket URL is required"

(***************************************************************************)
(* Paginated listings                                                      *)
(***************************************************************************)
\* The requests of the listing that call.fn makes, in the order sent.
ListingRequests ==
    SelectSeq(http_requests,
              LAMBDA r : r.to = (IF call.fn = "retrieve_all_markets" THEN "/markets"
                                 ELSE "/trades"))

IsPage(request) == request.response # None /\ request.response[1].tag = "page"

\* The records of the pages among `requests`, in the order fetched.
RECURSIVE PagesData(_)
PagesData(requests) ==
    IF requests = <<>> THEN <<>>
    ELSE (IF IsPage(requests[1]) THEN requests[1].response[1].body.data ELSE <<>>)
             \o PagesData(Tail(requests))

\* Every request but the first carries the cursor of the page before it,
\* which is neither empty nor the end marker.
CursorsFollowed(requests) ==
    \A i \in 1..Len(requests) :
        IF i = 1 THEN requests[i].next_cursor = None
        ELSE /\ IsPage(requests[i - 1])
             /\ requests[i].next_cursor
                    = Some(requests[i - 1].response[1].body.next_cursor)
             /\ requests[i].next_cursor[1] \notin {"", "LTE="}

\* The call in flight is in get_trades or past it.
InGetTrades ==
    \/ call.fn = "get_trades"
    \/ call.fn = "get_positions" /\ call.has_credentials

\* max(1, max_pages), one when max_pages is absent.
TradesPageLimit ==
    IF call.max_pages = None \/ call.max_pages = Some(0) THEN 1 ELSE call.max_pages[1]

TradesRequestsBounded ==
    InGetTrades =>
        LET requests == ListingRequests
            \* The last page that was fetched.
            last == CHOOSE i \in 1..Len(requests) :
                        IsPage(requests[i])
                            /\ \A j \in (i + 1)..Len(requests) : ~IsPage(requests[j])
        IN  /\ Len(requests) >= 1
            /\ Len(requests) <= TradesPageLimit
            /\ CursorsFollowed(requests)
            /\ (IsDone("get_trades") /\ result[1].tag = "Ok") =>
                   /\ result[1].value.data = PagesData(requests)
                   /\ result[1].value.next_cursor
                          = requests[last].response[1].body.next_cursor
                   /\ \/ Len(requests) = TradesPageLimit
                      \/ result[1].value.next_cursor \in {"", "LTE="}
                      \/ ~IsPage(requests[Len(requests)])
            /\ (call.fn = "get_positions" /\ pc \notin {"trades", "done"}) =>
                   trades = PagesData(requests)

\* C25: get_trades issues at least one and at most max(1, max_pages)
\* requests, one when max_pages is absent, 0 or 1; while it waits for a
\* response each step sends exactly one more request or ends the wait, so the
\* call ends; a further page is asked for only with the cursor of the page
\* before, which is neither empty nor "LTE="; the data returned is that of
\* the pages fetched, in order, and next_cursor that of the last page fetched.
GetTradesTerminates ==
    [][/\ TradesRequestsBounded'
       /\ (pc = "trades" /\ pc' = "trades") =>
              /\ Len(http_requests') = Len(http_requests) + 1
              /\ page' = page + 1
              /\ page' < TradesPageLimit]_vars

\* get_trades with max_pages = 3 returned the records of three pages.
ThreePagesOfTradesFetched ==
    /\ IsDone("get_trades")
    /\ call.max_pages = Some(3)
    /\ result[1].tag = "Ok"
    /\ Len(http_requests) = 3
    /\ Len(result[1].value.data) = 3
    /\ result[1].value.next_cursor = "Mg=="

\* C26: in get_trades a first page that fails returns Err; a follow-up page
\* with a status that is no success ends pagination with Ok, the trades of
\* the pages before it and next_cursor the cursor of the page that failed; a
\* follow-up page with a transport error or a body that does not parse
\* returns Err, nothing of the trades fetched; and get_positions, in the
\* first case of a follow-up, returns Ok with the positions of the pages
\* before.
FollowUpFailuresByKind ==
    (InGetTrades /\ pc \notin {"idle", "trades"}) =>
        LET requests == ListingRequests
            n == Len(ListingRequests)
            outcome == ListingRequests[Len(ListingRequests)].response[1]
        IN  /\ outcome.tag = "transport" => result = Some(Err("NetworkError"))
            /\ outcome.tag = "unparsable" => result = Some(Err("ApiError"))
            /\ (outcome.tag = "status" /\ n = 1) => result = Some(Err("ApiError"))
            /\ (outcome.tag = "status" /\ n > 1) =>
                   /\ pc = "done" => result[1].tag = "Ok"
                   /\ IsDone("get_trades") =>
                          result[1].value
                              = [data |-> PagesData(SubSeq(requests, 1, n - 1)),
                                 next_cursor |-> requests[n].next_cursor[1]]
                   /\ call.fn = "get_positions" =>
                          /\ trades = PagesData(SubSeq(requests, 1, n - 1))
                          /\ pc = "done" =>
                                 result[1].value = <<>> <=> EmittedOf(FoldAll(<<>>, trades)) = {}

\* get_positions returned a position although the second page of its trades
\* came back with a status that is no success.
PositionsFromTruncatedHistory ==
    /\ IsDone("get_positions")
    /\ result[1].tag = "Ok"
    /\ result[1].value # <<>>
    /\ Len(ListingRequests) = 2
    /\ ListingRequests[2].response[1].tag = "status"

\* max_pages, ten when absent.
MarketsPageLimit == IF call.max_pages = None THEN 10 ELSE call.max_pages[1]

MarketsRequestsBounded ==
    call.fn = "retrieve_all_markets" =>
        LET requests == ListingRequests
            n == Len(ListingRequests)
            markets == PagesData(ListingRequests)
        IN  /\ n <= MarketsPageLimit
            /\ pages_fetched <= MarketsPageLimit
            /\ CursorsFollowed(requests)
            /\ MarketsPageLimit = 0 =>
                   /\ pc = "done"
                   /\ n = 0
                   /\ result = Some(Ok([total_markets |-> 0, active_count |-> 0,
                                        closed_count |-> 0, pages_fetched |-> 0,
                                        markets |-> <<>>]))
            /\ (pc = "done" /\ \E i \in 1..n : ~IsPage(requests[i])) =>
                   /\ result[1].tag = "Err"
                   /\ DOMAIN result[1] = {"tag", "kind"}
            /\ (pc = "done" /\ \A i \in 1..n : IsPage(requests[i])) =>
                   /\ result[1].tag = "Ok"
                   /\ result[1].value.pages_fetched = n
                   /\ result[1].value.markets = markets
                   /\ result[1].value.total_markets = Len(markets)
                   /\ result[1].value.active_count + result[1].value.closed_count
                          <= result[1].value.total_markets
                   /\ result[1].value.closed_count
                          = Cardinality({i \in 1..Len(markets) : markets[i].closed})
                   /\ (n > 0 /\ n < MarketsPageLimit) =>
                          requests[n].response[1].body.next_cursor \in {"", "LTE="}

\* C27: retrieve_all_markets fetches at most max_pages pages (ten when
\* absent, none and an empty summary when 0), each step of the wait sending
\* exactly one more request or ending the call; it stops before max_pages
\* only at an empty cursor or "LTE="; each request carries the cursor of the
\* page before; total_markets is the number of markets of the pages,
\* active_count + closed_count <= total_markets; a page that fails makes the
\* call return Err.
RetrieveAllMarketsTerminates ==
    [][/\ MarketsRequestsBounded'
       /\ (pc = "markets" /\ pc' = "markets") =>
              /\ Len(http_requests') = Len(http_requests) + 1
              /\ pages_fetched' = pages_fetched + 1
              /\ pages_fetched' < MarketsPageLimit]_vars

\* retrieve_all_markets without max_pages stopped after ten pages although
\* the tenth page had a cursor to go on with.
TenPagesOfMarketsFetched ==
    /\ IsDone("retrieve_all_markets")
    /\ call.max_pages = None
    /\ result[1].tag = "Ok"
    /\ result[1].value.pages_fetched = 10
    /\ result[1].value.total_markets = 10
    /\ http_requests[10].response[1].body.next_cursor = "MQ=="

\* The calls in flight: the one being polled and the parked ones.
InFlight == {Locals} \cup {parked[i] : i \in DOMAIN parked}

\* What create_and_sign_order returns for `c` when it runs alone, reading the
\* clock at `now` and then at `now_nonce`, the signer succeeding.
OrderAlone(c, now, now_nonce) ==
    LET Signed(order) ==
            Ok(MakeSignedOrder(order,
                               Signature(c.key, eip712_hash(c.neg_risk, order))))
    IN  Signed(BuildOrderData(c.key, c.params, ParseU256(c.params.token_id).v,
                              now, now_nonce))

\* The clock readings a call can make.
Readings == LaterReadings([clock EXCEPT !.nanos = 0])

\* What get_positions appends for `asset_id` when it runs alone on trades that
\* fold to `map` and get_midpoint answers as it answered `f`.
PositionAlone(f, map, asset_id) ==
    LET Asked == {k \in DOMAIN f.midpoint_log : f.midpoint_log[k].token_id = asset_id}
    IN  IF Asked = {}
        THEN {PositionOf(map[asset_id], asset_id, FZero(0))}
        ELSE {PositionAfterMidpoint(map[asset_id], asset_id, f.midpoint_log[k].result[1]) :
                k \in {j \in Asked : f.midpoint_log[j].result # None}}

\* The positions and the result of get_positions in `f` are those of a call
\* running alone on trades that fold to `map`.
PositionsAlone(f, map) ==
    /\ \A k \in DOMAIN f.positions :
          /\ f.positions[k].asset_id \in DOMAIN map
          /\ f.positions[k] \in PositionAlone(f, map, f.positions[k].asset_id)
    /\ (f.result # None /\ f.result[1].tag = "Ok") =>
          /\ f.result[1].value = f.positions
          /\ {f.positions[k].asset_id : k \in DOMAIN f.positions}
                 = {a \in DOMAIN map : ~Skipped(net_size(map[a]))}
          /\ \A j, k \in DOMAIN f.positions :
                f.positions[j].asset_id = f.positions[k].asset_id => j = k

\* `f` is where a call running alone on its own inputs would be.
RunsAsAlone(f) ==
    /\ f.call.fn = "create_and_sign_order" =>
          /\ f.trades = <<>> /\ f.position_map = <<>> /\ f.positions = <<>>
          /\ f.pc = "sign" =>
                /\ f.order_data # None
                /\ f.digests = <<eip712_hash(f.call.neg_risk, f.order_data[1])>>
                /\ f.sign_requests = <<[key |-> f.call.key, digest |-> f.digests[1]]>>
          /\ (f.result # None /\ f.result[1].tag = "Ok") =>
                /\ Len(f.digests) = 1
                /\ \E now \in Readings :
                      /\ rand_salt(now) = f.order_data[1].salt
                      /\ \E now_nonce \in LaterReadings(now) :
                            f.result[1] = OrderAlone(f.call, now, now_nonce)
    /\ f.call.fn = "get_positions" =>
          /\ f.order_data = None /\ f.digests = <<>> /\ f.sign_requests = <<>>
          /\ IF f.folded < Len(f.trades)
             THEN /\ f.position_map = FoldAll(<<>>, SubSeq(f.trades, 1, f.folded))
                  /\ f.positions = <<>>
             ELSE /\ f.position_map = FoldAll(<<>>, f.trades)
                  /\ PositionsAlone(f, f.position_map)
    /\ f.pc = "idle" => f = FreshLocals

\* C21: when create_and_sign_order and get_positions calls are in flight
\* together on one builder and one client, in any interleaving, every call
\* is at each point where it would be had it run alone on its own inputs:
\* its accumulator is the fold of its own trades, its positions come from its
\* own accumulator and its own midpoint answers, its order is built, hashed
\* and signed from its own parameters and clock readings, and nothing of
\* another call appears in its locals.
ConcurrentCallsIndependent == \A f \in InFlight : RunsAsAlone(f)

\* A get_positions call is parked in its second loop while a
\* create_and_sign_order call started after it has returned a signed order.
OrderSignedWhilePositionsParked ==
    /\ pc = "done" /\ call.fn = "create_and_sign_order"
    /\ result # None /\ result[1].tag = "Ok"
    /\ \E i \in DOMAIN parked :
          /\ parked[i].call.fn = "get_positions"
          /\ parked[i].pc \in {"emit", "midpoint"}
          /\ parked[i].positions # <<>>

\* A get_positions call has returned its positions while another
\* get_positions call, on other trades, is parked in its first loop.
PositionsReturnedWhilePositionsParked ==
    /\ pc = "done" /\ call.fn = "get_positions"
    /\ result # None /\ result[1].tag = "Ok" /\ result[1].value # <<>>
    /\ \E i \in DOMAIN parked :
          /\ parked[i].call.fn = "get_positions"
          /\ parked[i].pc = "fold"
          /\ parked[i].trades # trades
          /\ parked[i].folded = 1

====
